---- MODULE Spec2Model ----
(***************************************************************************)
(* Asynchronous chunked classification engine of az-pg-spend-analysis-v2.  *)
(*                                                                         *)
(* Part I   Job Store and Scheduler / Worker Pool (spec.md 4.1, 4.2, 5).   *)
(*          The scheduler is not among the sources; it is modelled from    *)
(*          spec.md.                                                       *)
(* Part II  Classification Decision Engine (src/src/hybrid_classifier.py), *)
(*          Chunk Processor (src/src/core_classification.py) and the       *)
(*          synchronous path of ProcessTaxonomy (src/function_app.py).     *)
(* Part III Hierarchy Reconciliation Cascade                               *)
(*          (src/src/hierarchy_validator.py).                              *)
(* Part IV  The LLM collaborator's sub-batch call                          *)
(*          (src/src/llm_classifier.py).                                   *)
(***************************************************************************)
EXTENDS Integers, Sequences, FiniteSets, TLC

(***************************************************************************)
(* Bounds of the model.                                                    *)
(***************************************************************************)
MaxChunks == 2      \* largest total chunk count a submitted job may have
MaxCap == 2         \* largest parallelism cap a deployment is configured with
MaxCalls == 2       \* LLM batch requests counted per chunk
MaxRows == 2        \* largest number of rows in a classified chunk
MaxEntries == 2     \* largest number of entries in a custom taxonomy
MaxPasses == 2      \* runs of the cascade over the same rows
MaxItems == 2       \* largest number of items in one LLM sub-batch
MaxParsed == 2      \* largest number of entries in the list an LLM response holds
MaxTrainings == 4   \* training runs started for the sector
MaxDescriptions == 5 \* largest number of descriptions in one LLM request
chunk_size == 2     \* items per sub-batch (40 in the source, scaled down)

(***************************************************************************)
(* Part I: state of the Job Store and of one scheduler tick.               *)
(***************************************************************************)
VARIABLES
    status,            \* job -> NONE | PENDING | PROCESSING | COMPLETED | ERROR
    total_chunks,      \* job -> total chunk count, fixed at creation
    processed_chunks,  \* job -> processed-chunk count kept in the metadata
    created,           \* job -> creation timestamp
    error,             \* job -> recorded error text ("" when none)
    results,           \* job -> (chunk index -> chunk result artifact)
    final,             \* job -> final artifact (rows), <<>> when none
    now,               \* wall clock
    cap,               \* parallelism cap of the deployment
    pc,                \* position of the tick: idle | build | run | consolidate
    jobList,           \* the tick's list of active jobs
    assigned,          \* (job, chunk) pairs assigned so far in this tick
    batch,             \* the batch being run (sequence of pairs)
    running,           \* pairs of the batch whose worker has not finished
    llmCalls,          \* (job, chunk) -> LLM batch requests issued for it
    dispatchCount,     \* (job, chunk) -> dispatches within the current tick
    batchNo            \* batches completed so far in this tick (counted up to 2)

schedVars == <<status, total_chunks, processed_chunks, created, error, results,
               final, now, cap, pc, jobList, assigned, batch, running,
               llmCalls, dispatchCount, batchNo>>

(***************************************************************************)
(* Part II: state of one run of the classification pipeline.               *)
(***************************************************************************)
VARIABLES
    mode,              \* caller: chunk | sync | single (off while Part I runs)
    sector,            \* sector of the run
    use_llm,           \* use_llm (chunk), USE_LLM (sync), use_llm_fallback (single)
    custom_hierarchy,  \* lower-cased N4 keys of the custom taxonomy ({} if none)
    items,             \* the rows of the chunk, in row order
    classifier,        \* TRUE when a trained model is loaded
    cpc,               \* position: off | load | first | second | map | padrao | done
    chunk_results,     \* the result rows produced so far, in row order
    llmLog,            \* the requests sent to the LLM collaborator, in order
    llmAnswers         \* row -> kind of the last LLM answer for it ("none" if never asked)

clsVars == <<mode, sector, use_llm, custom_hierarchy, items, classifier, cpc,
             chunk_results, llmLog, llmAnswers>>

(***************************************************************************)
(* Part III: state of the Hierarchy Reconciliation Cascade                 *)
(* (src/src/hierarchy_validator.py).                                       *)
(***************************************************************************)
VARIABLES
    hierarchy,         \* the custom taxonomy: a list of entries with N1..N4
    lookup,            \* the HierarchyLookup built from it
    set_order,         \* the order in which this process iterates a set of N1 values
    vrows,             \* the rows handed to validate_and_correct, as they are now
    vorig,             \* the same rows as they were handed in first
    vsteps,            \* row -> step that settled it in the last run ("" before any)
    vpasses            \* runs of validate_and_correct over the rows so far

valVars == <<hierarchy, lookup, set_order, vrows, vorig, vsteps, vpasses>>

(***************************************************************************)
(* Part IV: state of one call of the LLM collaborator's sub-batch request  *)
(* (_call_openai_api in src/src/llm_classifier.py).                        *)
(***************************************************************************)
VARIABLES
    api_items,         \* the item texts of the sub-batch, in order
    api_attempt,       \* loop variable 'attempt' of the retry loop
    apc,               \* position: off | send | parse | returned | raised
    response,          \* status of the last response received ("None" if none)
    apiLog,            \* transport outcome of every HTTP attempt made, in order
    api_body,          \* what the body of the 200 response held ("none" before it is read)
    api_return         \* the list returned to the caller (<<>> before the return)

apiVars == <<api_items, api_attempt, apc, response, apiLog, api_body, api_return>>

(***************************************************************************)
(* Part V: the model store of one sector (models/<sector>/ as written by   *)
(* src/src/model_trainer.py and function_app.py) and the per-process model *)
(* cache of src/src/ml_classifier.py.  The three artifacts of a training   *)
(* run (vectorizer, classifier, label encoder) are always written and      *)
(* copied together and are named by the number of the run that made them;   *)
(* so is the hierarchy file of the run.  0 stands for "no file" / None.     *)
(***************************************************************************)
VARIABLES
    model_history,     \* model_history.json: entries [version_id, status], newest first
    history_file,      \* TRUE when model_history.json exists
    version_dirs,      \* n -> versions/v_n: [exists, artifacts, hierarchy]
    root_artifacts,    \* the three .pkl files in the sector root
    root_hierarchy,    \* n4_hierarchy.json in the sector root
    master_file,       \* TRUE when dataset_master.csv exists
    model_cache,       \* _MODEL_CACHE[sector]: [artifacts, hierarchy]
    loaded,            \* what the last load_model call returned
    trainings,         \* training runs started so far
    last_op            \* outcome of the last operation on the sector

mdlVars == <<model_history, history_file, version_dirs, root_artifacts,
             root_hierarchy, master_file, model_cache, loaded, trainings, last_op>>

(***************************************************************************)
(* Part VI: state of one call of classify_items_with_llm                   *)
(* (src/src/llm_classifier.py), which fans the descriptions out into       *)
(* sub-batches run on a thread pool and collects them as they complete.    *)
(***************************************************************************)
VARIABLES
    descriptions,      \* the descriptions of the request, in order
    configured,        \* TRUE when endpoint and API key are configured
    llm_results,       \* the list 'results' (NoneResult where still None)
    future_to_chunk,   \* chunk_start of every future not yet collected
    completed,         \* [chunk_start, outcome] of the futures collected, in order
    fpc,               \* position: off | start | collect | returned
    llm_return         \* the list returned to the caller (<<>> before the return)

fanVars == <<descriptions, configured, llm_results, future_to_chunk, completed,
             fpc, llm_return>>

vars == <<schedVars, clsVars, valVars, apiVars, mdlVars, fanVars>>

\* No LLM request is being fanned out (Parts I to V).
FanOff ==
    /\ descriptions = <<>>
    /\ configured = FALSE
    /\ llm_results = <<>>
    /\ future_to_chunk = {}
    /\ completed = <<>>
    /\ fpc = "off"
    /\ llm_return = <<>>


NoDir == [exists |-> FALSE, artifacts |-> 0, hierarchy |-> 0]
NoModel == [artifacts |-> 0, hierarchy |-> 0]

\* The sector has never been trained and nothing is cached (Parts I to IV; the
\* state Part V starts from).
MdlOff ==
    /\ model_history = <<>>
    /\ history_file = FALSE
    /\ version_dirs = [n \in 1..MaxTrainings |-> NoDir]
    /\ root_artifacts = 0
    /\ root_hierarchy = 0
    /\ master_file = FALSE
    /\ model_cache = NoModel
    /\ loaded = NoModel
    /\ trainings = 0
    /\ last_op = "none"


\* No sub-batch request is in progress (Parts I to III).
ApiOff ==
    /\ api_items = <<>>
    /\ api_attempt = 0
    /\ apc = "off"
    /\ response = "None"
    /\ apiLog = <<>>
    /\ api_body = [kind |-> "none", parsed |-> <<>>]
    /\ api_return = <<>>

\* No cascade is running (Parts I and II).
ValOff ==
    /\ hierarchy = <<>>
    /\ lookup = <<>>
    /\ set_order = <<>>
    /\ vrows = <<>>
    /\ vorig = <<>>
    /\ vsteps = <<>>
    /\ vpasses = 0

\* The pipeline is not running (Part I).
ClsOff ==
    /\ mode = "off"
    /\ sector = ""
    /\ use_llm = FALSE
    /\ custom_hierarchy = {}
    /\ items = <<>>
    /\ classifier = FALSE
    /\ cpc = "off"
    /\ chunk_results = <<>>
    /\ llmLog = <<>>
    /\ llmAnswers = <<>>

Jobs == {"A", "B"}
ROWS_PER_CHUNK == 2
STALE_AFTER == 1            \* staleness threshold: 1 hour (clock unit: 1 hour)
\* The sweep reads only whether an age exceeds the threshold: a clock that
\* runs to one unit past it shows every case.
MaxTime == STALE_AFTER + 1
ScenarioChunksA == 10
ScenarioChunksB == 2
ScenarioCap == 4
ChunkIdx == 0..(ScenarioChunksA - 1)
Pairs == Jobs \X ChunkIdx

Range(s) == {s[k] : k \in 1..Len(s)}
Min(S) == CHOOSE x \in S : \A y \in S : x <= y
Perms(S) == {s \in [1..Cardinality(S) -> S] : \A a, b \in 1..Cardinality(S) : a # b => s[a] # s[b]}

Chunks(j) == 0..(total_chunks[j] - 1)
Done(j) == DOMAIN results[j]
ResultCount(j) == Cardinality(Done(j))

\* One chunk result: the rows of the chunk in row order, each stamped with the
\* attempt that produced it (LLM answers may differ between attempts) and with
\* the number of results the job had when it was written (its write position).
ChunkResult(i, attempt, pos) ==
    [r \in 1..ROWS_PER_CHUNK |->
        [row |-> i * ROWS_PER_CHUNK + r, attempt |-> attempt, written |-> pos]]

(***************************************************************************)
(* Job Store operations (spec.md 4.1).                                     *)
(***************************************************************************)
\* (mutant) failed jobs are listed again, i.e. retried.
ListActiveWithFailed(st) == {j \in Jobs : st[j] \in {"PENDING", "PROCESSING", "ERROR"}}

\* list-active(): the jobs whose status is neither COMPLETED nor ERROR.
ListActive(st) == {j \in Jobs : st[j] \in {"PENDING", "PROCESSING"}}

\* (mutant) a job whose chunk results all exist is spared by the sweep.
IsStaleUnlessDone(j) ==
    /\ status[j] = "PROCESSING"
    /\ now - created[j] > STALE_AFTER
    /\ ResultCount(j) < total_chunks[j]

\* A job found in PROCESSING whose age exceeds the staleness threshold.
IsStale(j) == status[j] = "PROCESSING" /\ now - created[j] > STALE_AFTER

\* The status map after the stale-job sweep of a tick.
StaleSweep == [j \in Jobs |-> IF IsStale(j) THEN "ERROR" ELSE status[j]]

\* (mutant) the existence pre-check is dropped: done chunks are taken again.
UnassignedNoPrecheck(j, taken) ==
    {i \in Chunks(j) : <<j, i>> \notin taken}

\* The chunks of job j that are not done and not taken in this tick.
Unassigned(j, taken) ==
    {i \in Chunks(j) : i \notin Done(j) /\ <<j, i>> \notin taken}

\* One round of the round-robin: from position k of the job list on, take at
\* most one chunk of each job until the batch holds cap pairs.
RECURSIVE RoundRobinRound(_, _, _)
RoundRobinRound(k, b, taken) ==
    IF k > Len(jobList) \/ Len(b) >= cap THEN b
    ELSE LET j == jobList[k]
             u == Unassigned(j, taken \cup Range(b))
         IN IF u = {} THEN RoundRobinRound(k + 1, b, taken)
            ELSE RoundRobinRound(k + 1, Append(b, <<j, Min(u)>>), taken)

\* Rounds repeat until the cap is reached or a round adds nothing.
RECURSIVE RoundRobin(_, _)
RoundRobin(b, taken) ==
    LET b2 == RoundRobinRound(1, b, taken)
    IN IF b2 = b \/ Len(b2) >= cap THEN b2 ELSE RoundRobin(b2, taken)

\* (mutant) the batch is filled job by job: every chunk of a job is taken
\* before the next job of the list is looked at.
RECURSIVE GreedyFill(_, _, _)
GreedyFill(k, b, taken) ==
    IF k > Len(jobList) \/ Len(b) >= cap THEN b
    ELSE LET j == jobList[k]
             u == Unassigned(j, taken \cup Range(b))
         IN IF u = {} THEN GreedyFill(k + 1, b, taken)
            ELSE GreedyFill(k, Append(b, <<j, Min(u)>>), taken)

BuildBatchGreedy(taken) == GreedyFill(1, <<>>, taken)

\* (mutant) the pairs assigned earlier in the tick are forgotten.
BuildBatchForgetful(taken) == RoundRobin(<<>>, {})

\* The batch the scheduler builds at the head of its loop.
BuildBatchOf(taken) == RoundRobin(<<>>, taken)

Touched(b) == {p[1] : p \in Range(b)}

\* (mutant) an in-memory counter: the stored count plus the chunks of the
\* batch that were written.
CountInMemory(j) ==
    processed_chunks[j]
        + Cardinality({p \in Range(batch) : p[1] = j /\ p[2] \in Done(j)})

\* The processed-chunk count written after a batch: the actual count of
\* result artifacts of the job.
RecountProcessed(j) == ResultCount(j)

\* (mutant) a worker exception fails every job of the batch.
JobsFailedWithBatch(p) == Touched(batch)

\* The jobs a worker exception on pair p marks ERROR: that worker's job only.
JobsFailedBy(p) == {p[1]}

\* A job is ready for consolidation when its artifact count equals its total.
ReadyToConsolidate(j) == ResultCount(j) = total_chunks[j]

\* (mutant) the chunk results are gathered in the order they were written.
RECURSIVE GatherWritten(_, _)
GatherWritten(j, k) ==
    IF k >= total_chunks[j] THEN <<>>
    ELSE LET i == CHOOSE c \in Done(j) : results[j][c][1].written = k
         IN results[j][i] \o GatherWritten(j, k + 1)

GatherInWriteOrder(j) == GatherWritten(j, 0)

\* Consolidation gathers the chunk results in chunk-index order.
RECURSIVE GatherFrom(_, _)
GatherFrom(j, i) ==
    IF i >= total_chunks[j] THEN <<>>
    ELSE results[j][i] \o GatherFrom(j, i + 1)

Gather(j) == GatherFrom(j, 0)

NoTick == /\ pc' = "idle"
          /\ jobList' = <<>>
          /\ assigned' = {}
          /\ batch' = <<>>
          /\ running' = {}
          /\ dispatchCount' = [p \in Pairs |-> 0]
          /\ batchNo' = 0

(***************************************************************************)
(* Actions of Part I.                                                      *)
(***************************************************************************)
\* The submission collaborator creates job j with n chunks (status PENDING).
\* The tick reads no job outside its job list, so submissions are taken
\* between ticks; they are taken before the clock starts to run.
Submit(j, n) ==
    /\ UNCHANGED <<clsVars, valVars, apiVars, mdlVars, fanVars>>
    /\ pc = "idle"
    /\ now = 0
    /\ status[j] = "NONE"
    /\ status' = [status EXCEPT ![j] = "PENDING"]
    /\ total_chunks' = [total_chunks EXCEPT ![j] = n]
    /\ created' = [created EXCEPT ![j] = now]
    /\ UNCHANGED <<processed_chunks, error, results, final, now, cap, pc,
                   jobList, assigned, batch, running, llmCalls,
                   dispatchCount, batchNo>>

\* Time passes; the clock is read by the stale-job sweep only.
AdvanceClock ==
    /\ UNCHANGED <<clsVars, valVars, apiVars, mdlVars, fanVars>>
    /\ pc = "idle"
    /\ now < MaxTime
    /\ now' = now + 1
    /\ UNCHANGED <<status, total_chunks, processed_chunks, created, error,
                   results, final, cap, pc, jobList, assigned, batch,
                   running, llmCalls, dispatchCount, batchNo>>

\* Steps 1 and 2 of a tick: stale-job sweep, then collection of the
\* non-terminal jobs, PENDING jobs becoming PROCESSING.
TickStart ==
    /\ UNCHANGED <<clsVars, valVars, apiVars, mdlVars, fanVars>>
    /\ pc = "idle"
    /\ LET swept == StaleSweep
           active == ListActive(swept)
       IN /\ status' = [j \in Jobs |-> IF swept[j] = "PENDING" THEN "PROCESSING"
                                       ELSE swept[j]]
          /\ error' = [j \in Jobs |-> IF IsStale(j) THEN "stale" ELSE error[j]]
          /\ \E order \in Perms(active) : jobList' = order
    /\ pc' = "build"
    /\ assigned' = {}
    /\ batch' = <<>>
    /\ running' = {}
    /\ dispatchCount' = [p \in Pairs |-> 0]
    /\ UNCHANGED <<total_chunks, processed_chunks, created, results, final,
                   now, cap, llmCalls, batchNo>>

\* Step 3a/3b: build a batch by round-robin and dispatch it; an empty batch
\* ends the loop.
BuildBatch ==
    /\ UNCHANGED <<clsVars, valVars, apiVars, mdlVars, fanVars>>
    /\ pc = "build"
    /\ LET b == BuildBatchOf(assigned)
       IN /\ batch' = b
          /\ running' = Range(b)
          /\ assigned' = assigned \cup Range(b)
          /\ dispatchCount' = [p \in Pairs |-> IF p \in Range(b)
                                               THEN dispatchCount[p] + 1
                                               ELSE dispatchCount[p]]
          /\ pc' = IF b = <<>> THEN "consolidate" ELSE "run"
    /\ UNCHANGED <<status, total_chunks, processed_chunks, created, error,
                   results, final, now, cap, jobList, llmCalls, batchNo>>

\* Step 3: the time budget is exhausted after some batch; the loop ends.
BudgetExhausted ==
    /\ UNCHANGED <<clsVars, valVars, apiVars, mdlVars, fanVars>>
    /\ pc = "build"
    /\ batch # <<>>
    /\ pc' = "consolidate"
    /\ UNCHANGED <<status, total_chunks, processed_chunks, created, error,
                   results, final, now, cap, jobList, assigned, batch,
                   running, llmCalls, dispatchCount, batchNo>>

\* A worker runs the Chunk Processor on its pair (at most one batched LLM
\* request per run) and writes the chunk result artifact (mark-chunk-done).
WorkerDone(p) ==
    /\ UNCHANGED <<clsVars, valVars, apiVars, mdlVars, fanVars>>
    /\ pc = "run"
    /\ p \in running
    /\ llmCalls[p] < MaxCalls
    /\ llmCalls' = [llmCalls EXCEPT ![p] = @ + 1]
    /\ results' = [results EXCEPT ![p[1]] =
                       (p[2] :> ChunkResult(p[2], llmCalls[p] + 1, ResultCount(p[1]))) @@ @]
    /\ running' = running \ {p}
    /\ UNCHANGED <<status, total_chunks, processed_chunks, created, error,
                   final, now, cap, pc, jobList, assigned, batch,
                   dispatchCount, batchNo>>

\* The worker throws: its job is marked ERROR with the error text; no
\* artifact is written for the chunk.
WorkerFail(p) ==
    /\ UNCHANGED <<clsVars, valVars, apiVars, mdlVars, fanVars>>
    /\ pc = "run"
    /\ p \in running
    /\ status' = [j \in Jobs |-> IF j \in JobsFailedBy(p) THEN "ERROR" ELSE status[j]]
    /\ error' = [j \in Jobs |-> IF j \in JobsFailedBy(p) THEN "worker" ELSE error[j]]
    /\ running' = running \ {p}
    /\ UNCHANGED <<total_chunks, processed_chunks, created, results, final,
                   now, cap, pc, jobList, assigned, batch, llmCalls,
                   dispatchCount, batchNo>>

\* Step 3c: the batch is complete; each touched job's processed-chunk count
\* is set from the artifacts that exist.
PostBatch ==
    /\ UNCHANGED <<clsVars, valVars, apiVars, mdlVars, fanVars>>
    /\ pc = "run"
    /\ running = {}
    /\ processed_chunks' = [j \in Jobs |-> IF j \in Touched(batch)
                                           THEN RecountProcessed(j)
                                           ELSE processed_chunks[j]]
    /\ batchNo' = IF batchNo < 2 THEN batchNo + 1 ELSE batchNo
    /\ pc' = "build"
    /\ UNCHANGED <<status, total_chunks, created, error, results, final, now,
                   cap, jobList, assigned, batch, running, llmCalls,
                   dispatchCount>>

\* Step 4: every job of the list whose artifact count equals its total is
\* consolidated: the final artifact is written, the job becomes COMPLETED and
\* its chunk results are purged; a consolidation that throws makes the job
\* ERROR and leaves the artifacts in place.  The tick ends.
Consolidate ==
    /\ UNCHANGED <<clsVars, valVars, apiVars, mdlVars, fanVars>>
    /\ pc = "consolidate"
    /\ LET ready == {j \in Range(jobList) : ReadyToConsolidate(j)}
       IN \E failed \in SUBSET ready :
            /\ status' = [j \in Jobs |-> IF j \in failed THEN "ERROR"
                                         ELSE IF j \in ready THEN "COMPLETED"
                                         ELSE status[j]]
            /\ error' = [j \in Jobs |-> IF j \in failed THEN "consolidation"
                                        ELSE error[j]]
            /\ final' = [j \in Jobs |-> IF j \in ready \ failed THEN Gather(j)
                                        ELSE final[j]]
            /\ results' = [j \in Jobs |-> IF j \in ready \ failed THEN <<>>
                                          ELSE results[j]]
    /\ NoTick
    /\ UNCHANGED <<total_chunks, processed_chunks, created, now, cap,
                   llmCalls>>

\* The worker process dies in mid-tick: what the tick held in memory is
\* lost, the Job Store keeps what was written.
Crash ==
    /\ UNCHANGED <<clsVars, valVars, apiVars, mdlVars, fanVars>>
    /\ pc # "idle"
    /\ NoTick
    /\ UNCHANGED <<status, total_chunks, processed_chunks, created, error,
                   results, final, now, cap, llmCalls>>

InitStore ==
    /\ status = [j \in Jobs |-> "NONE"]
    /\ total_chunks = [j \in Jobs |-> 0]
    /\ processed_chunks = [j \in Jobs |-> 0]
    /\ created = [j \in Jobs |-> 0]
    /\ error = [j \in Jobs |-> ""]
    /\ results = [j \in Jobs |-> <<>>]
    /\ final = [j \in Jobs |-> <<>>]
    /\ now = 0
    /\ pc = "idle"
    /\ jobList = <<>>
    /\ assigned = {}
    /\ batch = <<>>
    /\ running = {}
    /\ llmCalls = [p \in Pairs |-> 0]
    /\ dispatchCount = [p \in Pairs |-> 0]
    /\ batchNo = 0

Init ==
    /\ InitStore
    /\ cap \in 1..MaxCap
    /\ ClsOff
    /\ ValOff
    /\ ApiOff
    /\ MdlOff
    /\ FanOff

Next ==
    \/ \E j \in Jobs, n \in 1..MaxChunks : Submit(j, n)
    \/ AdvanceClock
    \/ TickStart
    \/ BuildBatch
    \/ BudgetExhausted
    \/ \E p \in Pairs : WorkerDone(p)
    \/ \E p \in Pairs : WorkerFail(p)
    \/ PostBatch
    \/ Consolidate
    \/ Crash

Spec == Init /\ [][Next]_vars

(***************************************************************************)
(* Properties of Part I.                                                   *)
(***************************************************************************)
Terminal == {"COMPLETED", "ERROR"}

\* C1: once a chunk result exists for (job, chunk) no step issues an LLM call
\* for that chunk, and as long as the result exists it is never rewritten (it
\* stays identical), in any later tick and after any crash.
C1_ChunkIdempotent ==
    [][\A p \in Pairs :
          p[2] \in Done(p[1]) =>
             /\ llmCalls'[p] = llmCalls[p]
             /\ p[2] \in DOMAIN results'[p[1]] =>
                    results'[p[1]][p[2]] = results[p[1]][p[2]]]_vars

\* A later tick is running a batch for a job one of whose chunks was written
\* by an earlier tick (it was not assigned in this tick) and has been skipped.
C1_Witness ==
    /\ pc = "run"
    /\ \E j \in Jobs : \E i \in Done(j) :
          /\ <<j, i>> \notin assigned
          /\ llmCalls[<<j, i>>] = 1
          /\ \E p \in Range(batch) : p[1] = j

C3_StatusMachine ==
    [][\A j \in Jobs :
          /\ status'[j] # status[j] =>
                <<status[j], status'[j]>> \in
                    {<<"NONE", "PENDING">>, <<"PENDING", "PROCESSING">>,
                     <<"PROCESSING", "COMPLETED">>, <<"PROCESSING", "ERROR">>}
          /\ status[j] \in Terminal => status'[j] = status[j]
          /\ (pc = "idle" /\ status[j] \in Terminal) =>
                \A k \in 1..Len(jobList') : jobList'[k] # j]_vars

\* A tick has started while one job is in ERROR and the other is COMPLETED,
\* and has listed neither.
C3_Witness ==
    /\ pc = "build"
    /\ jobList = <<>>
    /\ \E j, k \in Jobs :
          /\ status[j] = "ERROR"
          /\ status[k] = "COMPLETED"

\* C4: the step in which a worker exception makes job J ERROR removes one of
\* J's running pairs without an artifact for it, writes no artifact, and
\* leaves status and error text of every other job as they were; from then
\* on the results J has are retained.
C4_WorkerThrowIsolated ==
    [][\A j \in Jobs :
          /\ (status[j] # "ERROR" /\ status'[j] = "ERROR" /\ error'[j] = "worker") =>
                /\ \E p \in running :
                      /\ p[1] = j
                      /\ p \notin running'
                      /\ p[2] \notin DOMAIN results'[j]
                /\ results' = results
                /\ final' = final
                /\ \A k \in Jobs \ {j} :
                      status'[k] = status[k] /\ error'[k] = error[k]
          /\ (status[j] = "ERROR" /\ error[j] = "worker") =>
                \A i \in DOMAIN results[j] :
                    /\ i \in DOMAIN results'[j]
                    /\ results'[j][i] = results[j][i]]_vars

\* Job j is ERROR by a worker exception on a chunk that has no artifact while
\* another chunk of j has one, and the other job of the batch goes on.
C4_Witness ==
    /\ pc = "idle"
    /\ \E j, k \in Jobs :
          /\ j # k
          /\ status[j] = "ERROR" /\ error[j] = "worker"
          /\ total_chunks[j] = 2
          /\ Done(j) = {1}
          /\ status[k] = "COMPLETED"

\* C5: a job that is PROCESSING and older than the staleness threshold when
\* a tick starts is ERROR after the sweep, whatever its chunk progress, and
\* is not in the tick's job list (so it is not consolidated).
C5_StaleSweep ==
    [][(pc = "idle" /\ pc' # "idle") =>
          \A j \in Jobs :
             (status[j] = "PROCESSING" /\ now - created[j] > STALE_AFTER) =>
                 /\ status'[j] = "ERROR"
                 /\ \A k \in 1..Len(jobList') : jobList'[k] # j]_vars

\* A job all of whose chunk results exist has been swept as stale.
C5_Witness ==
    \E j \in Jobs :
       /\ status[j] = "ERROR"
       /\ error[j] = "stale"
       /\ total_chunks[j] = 2
       /\ Done(j) = Chunks(j)

\* C7: a job becomes COMPLETED only in a step before which a chunk result
\* exists for every index in [0, total), and its final artifact lists the
\* rows of the chunk results in ascending chunk index (original row order).
C7_ConsolidationOrder ==
    [][\A j \in Jobs :
          (status[j] # "COMPLETED" /\ status'[j] = "COMPLETED") =>
             /\ DOMAIN results[j] = 0..(total_chunks[j] - 1)
             /\ Len(final'[j]) = total_chunks[j] * ROWS_PER_CHUNK
             /\ \A k \in 1..Len(final'[j]) :
                   /\ final'[j][k].row = k
                   /\ final'[j][k] =
                        results[j][(k - 1) \div ROWS_PER_CHUNK][((k - 1) % ROWS_PER_CHUNK) + 1]]_vars

\* A job is COMPLETED whose chunk 1 was written before its chunk 0.
C7_Witness ==
    \E j \in Jobs :
       /\ status[j] = "COMPLETED"
       /\ Len(final[j]) = 2 * ROWS_PER_CHUNK
       /\ final[j][1].written = 1
       /\ final[j][ROWS_PER_CHUNK + 1].written = 0

\* C8: a batch holds at most cap pairs, holds no pair twice, no pair whose
\* worker is yet to finish has a result artifact, and no pair is dispatched
\* more than once within one tick.
C8_BatchShape ==
    /\ Len(batch) <= cap
    /\ \A a, b \in 1..Len(batch) : a # b => batch[a] # batch[b]
    /\ \A p \in running : p[2] \notin DOMAIN results[p[1]]
    /\ \A p \in Pairs : dispatchCount[p] <= 1

\* A second batch of a tick is running at the cap, after a first batch in
\* which a worker threw.
C8_Witness ==
    /\ pc = "run"
    /\ Len(batch) = cap
    /\ cap = 2
    /\ Cardinality(assigned) > Len(batch)
    /\ \E j \in Jobs : status[j] = "ERROR" /\ error[j] = "worker"

(***************************************************************************)
(* The fairness scenario of spec.md 8: jobs A (10 chunks) and B (2 chunks) *)
(* are submitted together, the parallelism cap is 4; ticks run to their    *)
(* end (no crash, no worker exception); a consolidation may fail.          *)
(***************************************************************************)
InitFair ==
    /\ status = [j \in Jobs |-> "PENDING"]
    /\ total_chunks = [j \in Jobs |-> IF j = "A" THEN ScenarioChunksA ELSE ScenarioChunksB]
    /\ processed_chunks = [j \in Jobs |-> 0]
    /\ created = [j \in Jobs |-> 0]
    /\ error = [j \in Jobs |-> ""]
    /\ results = [j \in Jobs |-> <<>>]
    /\ final = [j \in Jobs |-> <<>>]
    /\ now = 0
    /\ cap = ScenarioCap
    /\ pc = "idle"
    /\ jobList = <<>>
    /\ assigned = {}
    /\ batch = <<>>
    /\ running = {}
    /\ llmCalls = [p \in Pairs |-> 0]
    /\ dispatchCount = [p \in Pairs |-> 0]
    /\ batchNo = 0
    /\ ClsOff
    /\ ValOff
    /\ ApiOff
    /\ MdlOff
    /\ FanOff

NextFair ==
    \/ TickStart
    \/ BuildBatch
    \/ BudgetExhausted
    \/ \E p \in Pairs : WorkerDone(p)
    \/ PostBatch
    \/ Consolidate

SpecFair == InitFair /\ [][NextFair]_vars

CountIn(b, j) == Cardinality({k \in 1..Len(b) : b[k][1] = j})

PADRAO == "Padrão"
Sectors == {PADRAO, "Varejo"}
NAO_IDENTIFICADO == "Não Identificado"
confidence_threshold_unique == 45
confidence_threshold_ambiguous == 25
LLM_DEFAULT_CONFIDENCE == 80

Path(n1, n2, n3, n4) == [N1 |-> n1, N2 |-> n2, N3 |-> n3, N4 |-> n4]
EmptyPath == Path("", "", "", "")

\* Top-3 candidate lists of the trained model: diverging at N1, at N3, at N4,
\* and a single candidate.
CandsN1 == <<Path("M1", "M2", "M3", "M4"), Path("X1", "X2", "X3", "X4"),
             Path("M1", "M2", "M3", "M4b")>>
CandsN3 == <<Path("M1", "M2", "M3", "M4"), Path("M1", "M2", "M3b", "M4b"),
             Path("M1", "M2", "M3c", "M4c")>>
CandsN4 == <<Path("M1", "M2", "M3", "M4"), Path("M1", "M2", "M3", "M4b"),
             Path("M1", "M2", "M3", "M4c")>>
CandsOne == <<Path("M1", "M2", "M3", "M4")>>

\* The dictionary: its categories in the insertion order of patterns_by_n4,
\* and taxonomy_by_n4.  The two categories share N1 and N2.
DictCategories == <<"D4", "D4b">>
taxonomy_by_n4 ==
    [D4 |-> Path("D1", "D2", "D3", "D4"), D4b |-> Path("D1", "D2", "D3b", "D4b")]

\* How many terms of each category match a description.
DictScores == [{"D4", "D4b"} -> {0, 1, 2}]
Hits(a, b) == [D4 |-> a, D4b |-> b]

\* A row: its description, what the trained model predicts for it (top
\* confidence and top-3 candidates) and the dictionary terms found in it.
Item(d, c, k, m) == [desc |-> d, confidence |-> c, top_candidates |-> k, dict |-> m]
Items ==
    { Item("cafe",     45, CandsN4,  Hits(1, 0)),
      Item("etiqueta", 44, CandsN3,  Hits(2, 1)),
      Item("frete",    25, CandsN1,  Hits(0, 0)),
      Item("papel",    30, CandsOne, Hits(0, 0)),
      Item("luva",     24, CandsN4,  Hits(2, 1)),
      Item("tinta",    24, CandsN3,  Hits(1, 1)),
      Item("xyz",      10, CandsN1,  Hits(0, 0)) }

\* What the LLM collaborator returns for one item: a full path, a path whose
\* N1 is empty, or the placeholder.
LLMKinds == {"path", "noN1", "placeholder"}

create_manual_fallback ==
    [N1 |-> NAO_IDENTIFICADO, N2 |-> NAO_IDENTIFICADO, N3 |-> NAO_IDENTIFICADO,
     N4 |-> NAO_IDENTIFICADO, confidence |-> 0]

LLMResult(kind) ==
    CASE kind = "path" ->
            [N1 |-> "L1", N2 |-> "L2", N3 |-> "L3", N4 |-> "L4",
             confidence |-> LLM_DEFAULT_CONFIDENCE]
      [] kind = "noN1" ->
            [N1 |-> "", N2 |-> "L2", N3 |-> "L3", N4 |-> "L4",
             confidence |-> LLM_DEFAULT_CONFIDENCE]
      [] OTHER -> create_manual_fallback

ClassificationResult(st, p, conf, src, lvl, opts) ==
    [status |-> st, N1 |-> p.N1, N2 |-> p.N2, N3 |-> p.N3, N4 |-> p.N4,
     ml_confidence |-> conf, classification_source |-> src,
     ambiguity_level |-> lvl, ambiguous_options |-> opts]

(***************************************************************************)
(* Decision Engine (classify_hybrid).                                      *)
(***************************************************************************)
predict_single(item) ==
    [confidence |-> item.confidence,
     N1 |-> item.top_candidates[1].N1, N2 |-> item.top_candidates[1].N2,
     N3 |-> item.top_candidates[1].N3, N4 |-> item.top_candidates[1].N4,
     top_candidates |-> item.top_candidates]

\* The values of classify_hybrid's ml_* locals when no classifier is loaded.
NoPrediction ==
    [confidence |-> 0, N1 |-> "", N2 |-> "", N3 |-> "", N4 |-> "",
     top_candidates |-> <<>>]

LevelValues(cands, level) == {cands[i][level] : i \in DOMAIN cands} \ {""}

\* A detector that reports the deepest level at which the candidates diverge.
find_deepest_divergence(cands) ==
    IF Len(cands) < 2 THEN [level |-> "None", options |-> {}]
    ELSE IF Cardinality(LevelValues(cands, "N4")) > 1
         THEN [level |-> "N4", options |-> LevelValues(cands, "N4")]
    ELSE IF Cardinality(LevelValues(cands, "N3")) > 1
         THEN [level |-> "N3", options |-> LevelValues(cands, "N3")]
    ELSE IF Cardinality(LevelValues(cands, "N2")) > 1
         THEN [level |-> "N2", options |-> LevelValues(cands, "N2")]
    ELSE IF Cardinality(LevelValues(cands, "N1")) > 1
         THEN [level |-> "N1", options |-> LevelValues(cands, "N1")]
    ELSE [level |-> "None", options |-> {}]

find_ambiguity_level(cands) ==
    IF Len(cands) < 2 THEN [level |-> "None", options |-> {}]
    ELSE IF Cardinality(LevelValues(cands, "N1")) > 1
         THEN [level |-> "N1", options |-> LevelValues(cands, "N1")]
    ELSE IF Cardinality(LevelValues(cands, "N2")) > 1
         THEN [level |-> "N2", options |-> LevelValues(cands, "N2")]
    ELSE IF Cardinality(LevelValues(cands, "N3")) > 1
         THEN [level |-> "N3", options |-> LevelValues(cands, "N3")]
    ELSE IF Cardinality(LevelValues(cands, "N4")) > 1
         THEN [level |-> "N4", options |-> LevelValues(cands, "N4")]
    ELSE [level |-> "None", options |-> {}]

\* The fields an Ambíguo outcome of the model carries (Decision 2).
AmbiguousFill(ml, level) ==
    LET top == ml.top_candidates[1]
    IN CASE level = "N1" -> EmptyPath
         [] level = "N2" -> Path(top.N1, "", "", "")
         [] level = "N3" -> Path(top.N1, top.N2, "", "")
         [] level = "N4" -> Path(top.N1, top.N2, top.N3, "")
         [] OTHER -> Path(ml.N1, ml.N2, ml.N3, ml.N4)

\* list(dict.fromkeys(v for v in values if v)): the non-empty values, each
\* once, in order of first occurrence.
RECURSIVE OrderedUnique(_)
OrderedUnique(values) ==
    IF values = <<>> THEN <<>>
    ELSE IF Head(values) = "" THEN OrderedUnique(Tail(values))
    ELSE <<Head(values)>> \o
         SelectSeq(OrderedUnique(Tail(values)), LAMBDA v : v # Head(values))

\* " | ".join(values)
RECURSIVE JoinBar(_)
JoinBar(values) ==
    IF values = <<>> THEN ""
    ELSE IF Len(values) = 1 THEN values[1]
    ELSE values[1] \o " | " \o JoinBar(Tail(values))

resolve_level(values) == JoinBar(OrderedUnique(values))

\* The categories with the highest positive score, in dictionary order.
Winners(scores) ==
    SelectSeq(DictCategories,
              LAMBDA c : scores[c] > 0 /\ \A d \in DOMAIN scores : scores[d] <= scores[c])

\* The dictionary's verdict on a row: a single winner, a tie, or no category
\* with a matching term.
match_n4_without_priority(item) ==
    LET winners == Winners(item.dict)
        level(n) == [k \in 1..Len(winners) |-> taxonomy_by_n4[winners[k]][n]]
    IN IF winners = <<>>
       THEN [taxonomy |-> EmptyPath, status |-> "Nenhum", found |-> FALSE]
       ELSE IF Len(winners) = 1
       THEN [taxonomy |-> taxonomy_by_n4[winners[1]], status |-> "Único", found |-> TRUE]
       ELSE [taxonomy |-> Path(resolve_level(level("N1")), resolve_level(level("N2")),
                               resolve_level(level("N3")), resolve_level(winners)),
             status |-> "Ambíguo", found |-> TRUE]

\* A last statement that reports no confidence at all.
NoMatchZeroConfidence(conf) ==
    ClassificationResult("Nenhum", EmptyPath, 0, "None", "None", {})

\* "No match at all": the outcome of classify_hybrid's last statement.
NoMatch(conf) == ClassificationResult("Nenhum", EmptyPath, conf, "None", "None", {})

\* A Decision Engine that lets a dictionary match override a medium-confidence
\* prediction (the disambiguation classify_hybrid leaves out of Decision 2).
LocalDecisionDictOverride(item, hasModel) ==
    LET ml == IF hasModel THEN predict_single(item) ELSE NoPrediction
        amb == find_ambiguity_level(ml.top_candidates)
        dic == match_n4_without_priority(item)
    IN IF ml.confidence >= confidence_threshold_unique
       THEN ClassificationResult("Único", ml, ml.confidence, "ML", "None", {})
       ELSE IF dic.found /\ dic.status \in {"Único", "Ambíguo"}
       THEN ClassificationResult(dic.status, dic.taxonomy, ml.confidence,
                                 "Dictionary", "None", {})
       ELSE IF ml.confidence >= confidence_threshold_ambiguous
       THEN ClassificationResult("Ambíguo", AmbiguousFill(ml, amb.level),
                                 ml.confidence, "ML", amb.level, amb.options)
       ELSE NoMatch(ml.confidence)

\* Decisions 1-3 of classify_hybrid: the model's thresholds, then the dictionary.
LocalDecision(item, hasModel) ==
    LET ml == IF hasModel THEN predict_single(item) ELSE NoPrediction
        amb == find_ambiguity_level(ml.top_candidates)
        dic == match_n4_without_priority(item)
    IN IF ml.confidence >= confidence_threshold_unique
       THEN ClassificationResult("Único", ml, ml.confidence, "ML", "None", {})
       ELSE IF ml.confidence >= confidence_threshold_ambiguous
       THEN ClassificationResult("Ambíguo", AmbiguousFill(ml, amb.level),
                                 ml.confidence, "ML", amb.level, amb.options)
       ELSE IF dic.found /\ dic.status \in {"Único", "Ambíguo"}
       THEN ClassificationResult(dic.status, dic.taxonomy, ml.confidence,
                                 "Dictionary", "None", {})
       ELSE NoMatch(ml.confidence)

\* The test classify_hybrid applies to an LLM result (Decisions 0 and 4).
LLMFoundMatch(r) == r.N1 # ""

LLMUnique(r) == ClassificationResult("Único", r, r.confidence, "LLM (UNSPSC)", "None", {})

\* classify_hybrid: the outcome, and the answers of the LLM calls it issued,
\* in order.  a0 and a4 are what the LLM collaborator answers when it is
\* asked in Decision 0 and in Decision 4.
classify_hybrid(item, sec, hasModel, use_llm_fallback, a0, a4) ==
    LET local == LocalDecision(item, hasModel)
        asked0 == IF sec = PADRAO THEN <<a0>> ELSE <<>>
    IN IF sec = PADRAO /\ LLMFoundMatch(LLMResult(a0))
       THEN [result |-> LLMUnique(LLMResult(a0)), calls |-> asked0]
       ELSE IF local.status # "Nenhum"
       THEN [result |-> local, calls |-> asked0]
       ELSE IF use_llm_fallback
       THEN [result |-> IF LLMFoundMatch(LLMResult(a4))
                        THEN LLMUnique(LLMResult(a4)) ELSE local,
             calls |-> Append(asked0, a4)]
       ELSE [result |-> local, calls |-> asked0]

(***************************************************************************)
(* Chunk Processor (process_dataframe_chunk) and the classification part   *)
(* of the synchronous path (ProcessTaxonomy).                              *)
(***************************************************************************)
\* The row process_dataframe_chunk returns for each input row when the models
\* of the sector cannot be loaded.
ErroRow == [status |-> "Erro", LLM_Explanation |-> "Model load error"]

RECURSIVE IndicesFrom(_, _)
IndicesFrom(res, i) ==
    IF i > Len(res) THEN <<>>
    ELSE IF res[i].status = "Nenhum" THEN <<i>> \o IndicesFrom(res, i + 1)
    ELSE IndicesFrom(res, i + 1)

unclassified_indices(res) == IndicesFrom(res, 1)

unclassified_descs(res, idxs) == [k \in 1..Len(idxs) |-> items[idxs[k]].desc]

UNCLASSIFIED == {NAO_IDENTIFICADO, "Nao Identificado", ""}

\* The merge test of ProcessTaxonomy's second pass.
AcceptSync(r) == r.N1 # ""

\* The merge test of process_dataframe_chunk's second pass.
AcceptChunk(r) == r.N1 # "" /\ r.N1 \notin UNCLASSIFIED

MergeRow(row, r, src) ==
    [row EXCEPT !.N1 = r.N1, !.N2 = r.N2, !.N3 = r.N3, !.N4 = r.N4,
                !.status = "Único", !.ml_confidence = r.confidence,
                !.classification_source = src]

\* Position of row i in the request, 0 if it was not sent.
PosIn(idxs, i) ==
    IF \E k \in 1..Len(idxs) : idxs[k] = i
    THEN CHOOSE k \in 1..Len(idxs) : idxs[k] = i
    ELSE 0

MergeChunk(res, idxs, answers) ==
    [i \in 1..Len(res) |->
        IF PosIn(idxs, i) # 0 /\ AcceptChunk(LLMResult(answers[PosIn(idxs, i)]))
        THEN MergeRow(res[i], LLMResult(answers[PosIn(idxs, i)]), "LLM (Batch)")
        ELSE res[i]]

MergeSync(res, idxs, answers) ==
    [i \in 1..Len(res) |->
        IF PosIn(idxs, i) # 0 /\ AcceptSync(LLMResult(answers[PosIn(idxs, i)]))
        THEN MergeRow(res[i], LLMResult(answers[PosIn(idxs, i)]),
                      "LLM (UNSPSC Fallback Batch)")
        ELSE res[i]]

Answered(old, idxs, answers) ==
    [i \in 1..Len(old) |->
        IF PosIn(idxs, i) # 0 THEN answers[PosIn(idxs, i)] ELSE old[i]]

(***************************************************************************)
(* Pass 4 of process_dataframe_chunk: local mapping of the rows' N4 onto   *)
(* the custom taxonomy.                                                    *)
(***************************************************************************)
\* The custom taxonomies of the model, by their lower-cased N4 keys.
CustomHierarchies == {{}, {"m4"}, {"m4", "l4x"}}

\* value.lower().strip() on the values of the model (a lower-case value is
\* its own image; no value of the model has surrounding blanks).
Lower(n4) ==
    CASE n4 = "M4" -> "m4"
      [] n4 = "D4" -> "d4"
      [] n4 = "L4" -> "l4"
      [] n4 = NAO_IDENTIFICADO -> "não identificado"
      [] n4 = "MRO" -> "mro"
      [] n4 = "Obras" -> "obras"
      [] n4 = "Tubulações" -> "tubulações"
      [] n4 = "TUBULAÇÕES" -> "tubulações"
      [] n4 = "Aço" -> "aço"
      [] n4 = "Aco" -> "aco"
      [] n4 = "Inox" -> "inox"
      [] n4 = "Tubo Industrial" -> "tubo industrial"
      [] n4 = "Tubo Galvanizado" -> "tubo galvanizado"
      [] n4 = "Tubo Industrial Leve" -> "tubo industrial leve"
      [] n4 = "Tubo Inox" -> "tubo inox"
      [] n4 = "Conexão" -> "conexão"
      [] n4 = "Hidráulica" -> "hidráulica"
      [] n4 = "Canos" -> "canos"
      [] n4 = "PVC" -> "pvc"
      [] n4 = "Elétrica" -> "elétrica"
      [] n4 = "Cabos" -> "cabos"
      [] n4 = "Cobre" -> "cobre"
      [] n4 = "Cabo Flexível" -> "cabo flexível"
      [] OTHER -> n4

\* difflib.get_close_matches(key, keys, n=1, cutoff=0.55) on these keys: only
\* "l4" and "l4x" are that close (ratio 0.8), every other pair is below 0.55.
CloseMatches(key, keys) == IF key = "l4" THEN keys \cap {"l4x"} ELSE {}

best_hierarchy_match(n4, keys) ==
    LET key == Lower(n4)
    IN IF key \in keys THEN key
       ELSE IF CloseMatches(key, keys) # {}
       THEN CHOOSE k \in CloseMatches(key, keys) : TRUE
       ELSE "None"

\* The entry of the custom taxonomy stored under a key.
CustomEntry(k) == Path("C1", "C2", "C3", IF k = "m4" THEN "M4" ELSE "L4x")

\* f"{source} (via {classification_source})"
ViaSource(exact, old) ==
    CASE exact /\ old = "ML" -> "Custom (via ML)"
      [] exact /\ old = "Dictionary" -> "Custom (via Dictionary)"
      [] exact /\ old = "LLM (Batch)" -> "Custom (via LLM (Batch))"
      [] exact /\ old = "LLM (UNSPSC)" -> "Custom (via LLM (UNSPSC))"
      [] ~exact /\ old = "ML" -> "Custom/fuzzy (via ML)"
      [] ~exact /\ old = "Dictionary" -> "Custom/fuzzy (via Dictionary)"
      [] ~exact /\ old = "LLM (Batch)" -> "Custom/fuzzy (via LLM (Batch))"
      [] ~exact /\ old = "LLM (UNSPSC)" -> "Custom/fuzzy (via LLM (UNSPSC))"
      [] OTHER -> "Custom"

MapRow(res, keys) ==
    IF res.status # "Único" \/ res.N4 = "" THEN res
    ELSE LET matched_key == best_hierarchy_match(res.N4, keys)
             h == CustomEntry(matched_key)
         IN IF matched_key # "None"
            THEN [res EXCEPT !.N1 = h.N1, !.N2 = h.N2, !.N3 = h.N3, !.N4 = h.N4,
                             !.classification_source =
                                 ViaSource(matched_key = Lower(res.N4),
                                           res.classification_source)]
            ELSE [res EXCEPT !.N1 = "", !.N2 = "", !.N3 = "", !.N4 = "",
                             !.status = "Nenhum"]

(***************************************************************************)
(* The "Padrão" branch of ProcessTaxonomy: one batched request with the    *)
(* distinct descriptions.                                                  *)
(***************************************************************************)
RECURSIVE unique_descriptions(_)
unique_descriptions(descs) ==
    IF descs = <<>> THEN <<>>
    ELSE <<Head(descs)>> \o
         SelectSeq(unique_descriptions(Tail(descs)), LAMBDA d : d # Head(descs))

PadraoRow(r) ==
    [N1 |-> r.N1, N2 |-> r.N2, N3 |-> r.N3, N4 |-> r.N4,
     status |-> IF r.N1 # "" /\ r.N1 # NAO_IDENTIFICADO THEN "Único" ELSE "Nenhum",
     ml_confidence |-> r.confidence,
     classification_source |-> "LLM (UNSPSC Batch Optimized)",
     ambiguous_options |-> {}]

(***************************************************************************)
(* Actions of Part II.                                                     *)
(***************************************************************************)
\* Step 1 of process_dataframe_chunk (load_model_for_sector, which may raise),
\* or the guarded load_model of ProcessTaxonomy and classify_hybrid (a failure
\* leaves the run without a model; "Padrão" loads none in the synchronous path).
ClsLoad ==
    /\ UNCHANGED <<schedVars, valVars, apiVars, mdlVars, fanVars>>
    /\ cpc = "load"
    /\ \E outcome \in {"model", "nomodel", "raise"} :
          /\ outcome = "raise" => mode = "chunk"
          /\ (mode = "sync" /\ sector = PADRAO) => outcome = "nomodel"
          /\ classifier' = (outcome = "model")
          /\ IF outcome = "raise"
             THEN /\ chunk_results' = [i \in 1..Len(items) |-> ErroRow]
                  /\ llmAnswers' = [i \in 1..Len(items) |-> "none"]
                  /\ cpc' = "done"
             ELSE /\ UNCHANGED <<chunk_results, llmAnswers>>
                  /\ cpc' = IF mode = "sync" /\ sector = PADRAO THEN "padrao" ELSE "first"
    /\ UNCHANGED <<mode, sector, use_llm, custom_hierarchy, items, llmLog>>

\* One iteration of the per-row loop: classify_hybrid on the next row, with
\* use_llm_fallback=False in both batch callers.
ClsFirstPass ==
    /\ UNCHANGED <<schedVars, valVars, apiVars, mdlVars, fanVars>>
    /\ cpc = "first"
    /\ Len(chunk_results) < Len(items)
    /\ \E a0, a4 \in LLMKinds :
          LET i == Len(chunk_results) + 1
              r == classify_hybrid(items[i], sector, classifier,
                                   mode = "single" /\ use_llm, a0, a4)
          IN /\ chunk_results' = Append(chunk_results, r.result)
             /\ llmLog' = llmLog \o
                   [k \in 1..Len(r.calls) |->
                       [phase |-> "first", items |-> <<items[i].desc>>]]
             /\ llmAnswers' = Append(llmAnswers,
                   IF r.calls = <<>> THEN "none" ELSE r.calls[Len(r.calls)])
             /\ cpc' = IF i < Len(items) THEN "first"
                       ELSE IF mode = "single" THEN "done" ELSE "second"
    /\ UNCHANGED <<mode, sector, use_llm, custom_hierarchy, items, classifier>>

\* The second pass: one batched request with the rows left 'Nenhum', and the
\* merge of its answers.  The chunk processor survives a failing request.
ClsSecondPass ==
    /\ UNCHANGED <<schedVars, valVars, apiVars, mdlVars, fanVars>>
    /\ cpc = "second"
    /\ LET idxs == unclassified_indices(chunk_results)
           request == [phase |-> "second",
                       items |-> unclassified_descs(chunk_results, idxs)]
           after == IF mode = "chunk" /\ use_llm /\ custom_hierarchy # {}
                    THEN "map" ELSE "done"
       IN /\ cpc' = after
          /\ IF use_llm /\ idxs # <<>>
             THEN \/ \E answers \in [1..Len(idxs) -> LLMKinds] :
                        /\ llmLog' = Append(llmLog, request)
                        /\ chunk_results' =
                              IF mode = "chunk"
                              THEN MergeChunk(chunk_results, idxs, answers)
                              ELSE MergeSync(chunk_results, idxs, answers)
                        /\ llmAnswers' = Answered(llmAnswers, idxs, answers)
                  \/ /\ mode = "chunk"
                     /\ llmLog' = Append(llmLog, request)
                     /\ UNCHANGED <<chunk_results, llmAnswers>>
             ELSE UNCHANGED <<llmLog, chunk_results, llmAnswers>>
    /\ UNCHANGED <<mode, sector, use_llm, custom_hierarchy, items, classifier>>

\* Pass 4 of process_dataframe_chunk.
ClsMapHierarchy ==
    /\ UNCHANGED <<schedVars, valVars, apiVars, mdlVars, fanVars>>
    /\ cpc = "map"
    /\ chunk_results' = [i \in 1..Len(chunk_results) |->
                            MapRow(chunk_results[i], custom_hierarchy)]
    /\ cpc' = "done"
    /\ UNCHANGED <<mode, sector, use_llm, custom_hierarchy, items, classifier,
                   llmLog, llmAnswers>>

\* The "Padrão" branch of ProcessTaxonomy.
ClsPadraoBatch ==
    /\ UNCHANGED <<schedVars, valVars, apiVars, mdlVars, fanVars>>
    /\ cpc = "padrao"
    /\ LET all == [i \in 1..Len(items) |-> items[i].desc]
           uniq == unique_descriptions(all)
           at(i) == CHOOSE k \in 1..Len(uniq) : uniq[k] = all[i]
       IN \E answers \in [1..Len(uniq) -> LLMKinds] :
             /\ llmLog' = Append(llmLog, [phase |-> "padrao", items |-> uniq])
             /\ chunk_results' = [i \in 1..Len(items) |->
                                     PadraoRow(LLMResult(answers[at(i)]))]
             /\ llmAnswers' = [i \in 1..Len(items) |-> answers[at(i)]]
    /\ cpc' = "done"
    /\ UNCHANGED <<mode, sector, use_llm, custom_hierarchy, items, classifier>>

\* A run of the pipeline: a chunk handed to process_dataframe_chunk, a request
\* to ProcessTaxonomy, or classify_hybrid called row by row with
\* use_llm_fallback as given.  Only the chunk processor maps onto a custom
\* taxonomy.
InitClassify ==
    /\ InitStore
    /\ cap = 1
    /\ ValOff
    /\ ApiOff
    /\ MdlOff
    /\ FanOff
    /\ mode \in {"chunk", "sync", "single"}
    /\ sector \in Sectors
    /\ use_llm \in BOOLEAN
    /\ custom_hierarchy \in CustomHierarchies
    /\ mode # "chunk" => custom_hierarchy = {}
    /\ items \in UNION {[1..n -> Items] : n \in 1..MaxRows}
    /\ classifier = FALSE
    /\ cpc = "load"
    /\ chunk_results = <<>>
    /\ llmLog = <<>>
    /\ llmAnswers = <<>>

NextClassify ==
    \/ ClsLoad
    \/ ClsFirstPass
    \/ ClsSecondPass
    \/ ClsMapHierarchy
    \/ ClsPadraoBatch

SpecClassify == InitClassify /\ [][NextClassify]_vars

(***************************************************************************)
(* Properties of Part II.                                                  *)
(***************************************************************************)
Unmatched(row) ==
    /\ row.status = "Nenhum"
    /\ row.N1 = "" /\ row.N2 = "" /\ row.N3 = "" /\ row.N4 = ""

\* C9 (as stated): in a finished run of the Decision Engine (steps 1 and 4),
\* of the Chunk Processor or of the synchronous two-pass path, every row
\* whose last LLM answer was the placeholder is Unmatched with empty N1-N4.
C9_PlaceholderUnmatched ==
    (cpc = "done" /\ ~(mode = "sync" /\ sector = PADRAO)) =>
        \A i \in 1..Len(chunk_results) :
            (chunk_results[i].status # "Erro" /\ llmAnswers[i] = "placeholder")
                => Unmatched(chunk_results[i])

\* C10 (as stated): while a chunk is processed no LLM request is issued during
\* the per-row first pass; the second pass issues at most one request, and it
\* holds exactly the descriptions of the rows left 'Nenhum', in row order; no
\* request follows.
C10_FirstPassLocalOnly ==
    [][ mode = "chunk" =>
          /\ cpc = "first" => llmLog' = llmLog
          /\ cpc = "second" =>
                \/ llmLog' = llmLog
                \/ llmLog' = Append(llmLog,
                      [phase |-> "second",
                       items |-> unclassified_descs(chunk_results,
                                     unclassified_indices(chunk_results))])
          /\ cpc \in {"load", "map", "done"} => llmLog' = llmLog ]_vars

\* Sources that name the LLM collaborator ("LLM" in classification_source).
LLMSources == {"LLM (Batch)", "LLM (UNSPSC)", "LLM (UNSPSC Fallback Batch)",
               "LLM (UNSPSC Batch Optimized)"}

\* C11 (as stated): with a custom taxonomy present, the reconciliation pass of
\* chunk processing leaves every row whose source is not the LLM (a row of the
\* statistical model or of the dictionary) unchanged in N1-N4, status and source.
C11_OnlyLLMRowsReconciled ==
    [][ (mode = "chunk" /\ cpc = "map") =>
          \A i \in 1..Len(chunk_results) :
              chunk_results[i].classification_source \notin LLMSources
                  => chunk_results'[i] = chunk_results[i] ]_vars

\* C12 (as stated): an LLM-produced row that the reconciliation of chunk
\* processing cannot map to the custom taxonomy keeps its N1-N4 and its status
\* exactly as the LLM returned them (the row is never cleared).
C12_UnmappedLLMRowKept ==
    [][ (mode = "chunk" /\ cpc = "map") =>
          \A i \in 1..Len(chunk_results) :
              ( /\ chunk_results[i].classification_source \in LLMSources
                /\ chunk_results[i].status = "Único"
                /\ best_hierarchy_match(chunk_results[i].N4, custom_hierarchy) = "None" )
                  => /\ chunk_results'[i].status = chunk_results[i].status
                     /\ chunk_results'[i].N1 = chunk_results[i].N1
                     /\ chunk_results'[i].N2 = chunk_results[i].N2
                     /\ chunk_results'[i].N3 = chunk_results[i].N3
                     /\ chunk_results'[i].N4 = chunk_results[i].N4 ]_vars

\* The rows hold what the Decision Engine returned for them: chunk processing
\* has yet to map them onto a custom taxonomy.
BeforeMapping == cpc \in {"first", "second"} \/ mode # "chunk"

TOP_K == 3

CandidatePool ==
    { Path("M1", "M2", "M3", "M4"),   Path("M1", "M2", "M3", "M4b"),
      Path("M1", "M2", "M3b", "M4c"), Path("M1", "M2b", "M3c", "M4d"),
      Path("X1", "X2", "X3", "X4"),   Path("M1", "", "M3", "M4e"),
      Path("", "", "", "M4f") }

CandidateLists ==
    { k \in UNION { [1..n -> CandidatePool] : n \in 2..TOP_K } :
        \A a, b \in DOMAIN k : a # b => k[a].N4 # k[b].N4 }

InitAmbiguity ==
    /\ InitStore
    /\ cap = 1
    /\ ValOff
    /\ ApiOff
    /\ MdlOff
    /\ FanOff
    /\ mode = "single"
    /\ sector = "Varejo"
    /\ use_llm \in BOOLEAN
    /\ custom_hierarchy = {}
    /\ items \in { <<Item("item", c, k, Hits(0, 0))>> :
                       c \in {24, 25, 44, 45}, k \in CandidateLists }
    /\ classifier = FALSE
    /\ cpc = "load"
    /\ chunk_results = <<>>
    /\ llmLog = <<>>
    /\ llmAnswers = <<>>

NextAmbiguity ==
    \/ ClsLoad
    \/ ClsFirstPass

SpecAmbiguity == InitAmbiguity /\ [][NextAmbiguity]_vars

\* The values the candidates carry at a level, empty ones included.
RawValues(cands, level) == {cands[k][level] : k \in DOMAIN cands}

\* The levels above a level, and the level with those below it.
Above(level) ==
    CASE level = "N1" -> {}
      [] level = "N2" -> {"N1"}
      [] level = "N3" -> {"N1", "N2"}
      [] level = "N4" -> {"N1", "N2", "N3"}
      [] OTHER -> {"N1", "N2", "N3", "N4"}

FromLevelDown(level) == {"N1", "N2", "N3", "N4"} \ Above(level)

AmbiguousByModel(row) == row.status = "Ambíguo" /\ row.classification_source = "ML"

\* C14 (as amended): for an Ambíguo outcome of the model, the ambiguity level
\* is the first level of N1, N2, N3, N4 at which the candidates' non-empty
\* values are not all identical (a candidate without a value at a level is
\* left out of the comparison); every level above it carries the top
\* candidate's value, and every candidate with a value at that level has the
\* same one; the ambiguity level and all deeper levels are empty;
\* ambiguous_options is the set of distinct non-empty values at that level.
C14_AmbiguityLevel ==
    \A i \in 1..Len(chunk_results) :
        AmbiguousByModel(chunk_results[i]) =>
            LET row == chunk_results[i]
                cands == items[i].top_candidates
                lvl == row.ambiguity_level
            IN /\ lvl \in {"N1", "N2", "N3", "N4"}
               /\ Cardinality(RawValues(cands, lvl) \ {""}) > 1
               /\ \A l \in Above(lvl) :
                     /\ Cardinality(RawValues(cands, l) \ {""}) <= 1
                     /\ row[l] = cands[1][l]
               /\ \A l \in FromLevelDown(lvl) : row[l] = ""
               /\ row.ambiguous_options = RawValues(cands, lvl) \ {""}

\* The model returned three candidates that agree on N1 and N2 and diverge on
\* N3: the outcome has level N3, N1 and N2 filled, N3 and N4 empty.
C14_Witness ==
    /\ Len(chunk_results) = 1
    /\ AmbiguousByModel(chunk_results[1])
    /\ Len(items[1].top_candidates) = TOP_K
    /\ chunk_results[1].ambiguity_level = "N3"
    /\ chunk_results[1].N1 = "M1" /\ chunk_results[1].N2 = "M2"
    /\ chunk_results[1].N3 = "" /\ chunk_results[1].N4 = ""
    /\ chunk_results[1].ambiguous_options = {"M3", "M3b"}

\* C14 (as stated): for an Ambíguo outcome of the model, the ambiguity level
\* is the first level at which the candidates' values are not all identical;
\* every level above it carries the value all candidates share; that level and
\* all deeper levels are empty; ambiguous_options is the set of distinct values
\* at that level.
C14_AsStated ==
    \A i \in 1..Len(chunk_results) :
        AmbiguousByModel(chunk_results[i]) =>
            LET row == chunk_results[i]
                cands == items[i].top_candidates
                lvl == row.ambiguity_level
            IN /\ lvl \in {"N1", "N2", "N3", "N4"}
               /\ Cardinality(RawValues(cands, lvl)) > 1
               /\ \A l \in Above(lvl) : RawValues(cands, l) = {row[l]}
               /\ \A l \in FromLevelDown(lvl) : row[l] = ""
               /\ row.ambiguous_options = RawValues(cands, lvl)

\* C15 (as stated): when two or more dictionary categories tie for the highest
\* match score the outcome is Ambíguo; every level at which the tied
\* categories' values differ is blank in the outcome, and every level at which
\* they share one value keeps that value.
C15_TieBlanksDifferingLevels ==
    BeforeMapping =>
        \A i \in 1..Len(chunk_results) :
            LET row == chunk_results[i]
                winners == Winners(items[i].dict)
                tied(l) == {taxonomy_by_n4[winners[k]][l] : k \in 1..Len(winners)}
            IN (row.classification_source = "Dictionary" /\ Len(winners) >= 2) =>
                  /\ row.status = "Ambíguo"
                  /\ \A l \in {"N1", "N2", "N3", "N4"} :
                        IF Cardinality(tied(l)) = 1
                        THEN row[l] \in tied(l)
                        ELSE row[l] = ""

\* C16 (as stated): for the sector "Padrão" the Decision Engine first issues
\* one single-item LLM call; a non-empty N1 gives Único with an LLM source;
\* otherwise control passes directly to step 4, so no outcome of that sector
\* comes from the statistical model or from the dictionary.
C16_OpenSectorSkipsLocalStages ==
    (sector = PADRAO /\ mode # "sync" /\ BeforeMapping) =>
        \A i \in 1..Len(chunk_results) :
            /\ chunk_results[i].classification_source \notin {"ML", "Dictionary"}
            /\ LLMFoundMatch(LLMResult(llmAnswers[i])) =>
                  /\ chunk_results[i].status = "Único"
                  /\ chunk_results[i].classification_source \in LLMSources

\* C17 (as stated): when no trained model can be loaded for the sector, the
\* run still classifies every row by the dictionary and LLM stages: once it
\* has finished there is a result for every row and none has status Erro.
C17_NoModelNotFatal ==
    (cpc = "done" /\ ~classifier) =>
        /\ Len(chunk_results) = Len(items)
        /\ \A i \in 1..Len(chunk_results) : chunk_results[i].status # "Erro"

\* The rows are as classify_hybrid returned them: no second pass has merged
\* anything into them yet.
EngineOutcomes == cpc \in {"first", "second"} \/ (mode = "single" /\ cpc = "done")

\* No stage resolved row i: the LLM, where asked, returned no N1; the model,
\* if one was loaded, stayed below the lower threshold; the dictionary found
\* no term.
NoStageResolves(i) ==
    /\ llmAnswers[i] = "none" \/ ~LLMFoundMatch(LLMResult(llmAnswers[i]))
    /\ ~classifier \/ items[i].confidence < confidence_threshold_ambiguous
    /\ ~match_n4_without_priority(items[i]).found

\* C23: when no stage resolves an item, the Decision Engine's outcome is
\* Unmatched with N1-N4 all empty, and its confidence is the model's
\* top-prediction confidence if a model prediction was made and 0 otherwise.
C23_UnresolvedOutcome ==
    EngineOutcomes =>
        \A i \in 1..Len(chunk_results) :
            NoStageResolves(i) =>
                /\ Unmatched(chunk_results[i])
                /\ chunk_results[i].ml_confidence
                      = IF classifier THEN items[i].confidence ELSE 0

\* With a model loaded and the LLM asked in vain, a row the model gave a
\* confidence of 10 came out Unmatched with that confidence.
C23_Witness ==
    /\ mode = "single" /\ cpc = "done" /\ classifier /\ use_llm
    /\ \E i \in 1..Len(chunk_results) :
          /\ NoStageResolves(i)
          /\ llmAnswers[i] = "noN1"
          /\ items[i].confidence = 10
          /\ chunk_results[i].status = "Nenhum"
          /\ chunk_results[i].ml_confidence = 10

(***************************************************************************)
(* Part III: the Hierarchy Lookup (HierarchyLookup.__init__).              *)
(***************************************************************************)
FUZZY_CUTOFF == 60

\* The entries custom taxonomies are made of.  The last one writes the level-2
\* value of the first in another casing.
TaxonomyPool ==
    { Path("MRO", "Tubulações", "Aço", "Tubo Industrial"),
      Path("MRO", "Tubulações", "Aço", "Tubo Galvanizado"),
      Path("Obras", "Tubulações", "Aço", "Tubo Industrial"),
      Path("Obras", "Tubulações", "Aço", "Tubo Industrial Leve"),
      Path("MRO", "TUBULAÇÕES", "Inox", "Tubo Inox"),
      Path("Obras", "Hidráulica", "Aço", "Tubo Industrial") }

LevelNames == <<"N1", "N2", "N3", "N4">>

LowerPath(e) == <<Lower(e.N1), Lower(e.N2), Lower(e.N3), Lower(e.N4)>>

\* Entries without an N4 are left out of the lookup.
KeptEntries(h) == SelectSeq(h, LAMBDA e : e.N4 # "")

\* lookup.n4_to_paths[k]: the (N1, N2, N3) of the entries with leaf k, one per
\* entry, in the order of the entries.
RECURSIVE PathsOfLeaf(_, _)
PathsOfLeaf(es, k) ==
    IF es = <<>> THEN <<>>
    ELSE LET l == LowerPath(Head(es))
         IN (IF l[4] = k THEN << <<l[1], l[2], l[3]>> >> ELSE <<>>)
                \o PathsOfLeaf(Tail(es), k)

\* lookup.canonical_case[k]: the value written last under key k (entries in
\* order, within an entry N1, N2, N3, N4).
LastCasing(es, k) ==
    LET hits == {w \in (1..Len(es)) \X (1..4) : Lower(es[w[1]][LevelNames[w[2]]]) = k}
        last == CHOOSE w \in hits :
                    \A v \in hits : v[1] < w[1] \/ (v[1] = w[1] /\ v[2] <= w[2])
    IN es[last[1]][LevelNames[last[2]]]

HierarchyLookup(h) ==
    LET es == KeptEntries(h)
        idx == 1..Len(es)
        lp(i) == LowerPath(es[i])
    IN [valid_paths |-> {lp(i) : i \in idx},
        valid_n1s |-> {lp(i)[1] : i \in idx},
        valid_n2s |-> {lp(i)[2] : i \in idx},
        valid_n3s |-> {lp(i)[3] : i \in idx},
        valid_n4s |-> {lp(i)[4] : i \in idx},
        n2_to_n1 |-> [k \in {lp(i)[2] : i \in idx} |->
                         {lp(i)[1] : i \in {j \in idx : lp(j)[2] = k}}],
        n3_to_n1n2 |-> [k \in {lp(i)[3] : i \in idx} |->
                         {<<lp(i)[1], lp(i)[2]>> : i \in {j \in idx : lp(j)[3] = k}}],
        n4_to_paths |-> [k \in {lp(i)[4] : i \in idx} |-> PathsOfLeaf(es, k)],
        n1n2_to_n3s |-> [k \in {<<lp(i)[1], lp(i)[2]>> : i \in idx} |->
                         {lp(i)[3] : i \in {j \in idx : <<lp(j)[1], lp(j)[2]>> = k}}],
        n1n2n3_to_n4s |-> [k \in {<<lp(i)[1], lp(i)[2], lp(i)[3]>> : i \in idx} |->
                         {lp(i)[4] : i \in {j \in idx :
                                              <<lp(j)[1], lp(j)[2], lp(j)[3]>> = k}}],
        canonical_case |-> [k \in UNION {{lp(i)[1], lp(i)[2], lp(i)[3], lp(i)[4]} : i \in idx}
                               |-> LastCasing(es, k)]]

\* dict.get(key, default)
Get(map, key, default) == IF key \in DOMAIN map THEN map[key] ELSE default

get_canonical(lk, value) == Get(lk.canonical_case, Lower(value), value)

\* difflib's similarity ratio (in percent) of a word and a candidate, on the
\* values of the model; every pair not listed is below 60.
Ratio(word, x) ==
    CASE word = x -> 100
      [] word = "aco" /\ x = "aço" -> 66
      [] word = "tubo industrial" /\ x = "tubo industrial leve" -> 85
      [] word = "tubo industrial leve" /\ x = "tubo industrial" -> 85
      [] word = "inox" /\ x = "tubo inox" -> 61
      [] word = "tubo inox" /\ x = "inox" -> 61
      [] OTHER -> 0

\* _fuzzy_match: the closest candidate at or above the cutoff, "None" if none.
fuzzy_match(value, candidates) ==
    LET close == {c \in candidates : Ratio(value, c) >= FUZZY_CUTOFF}
    IN IF close = {} THEN "None"
       ELSE CHOOSE c \in close : \A d \in close : Ratio(value, c) >= Ratio(value, d)

(***************************************************************************)
(* Part III: the cascade (validate_and_correct).  A row's                  *)
(* classification_source is the sequence of its parts: appending a part    *)
(* is the concatenation source + " [tag]".                                 *)
(***************************************************************************)
VRow(p, st, src) ==
    [N1 |-> p.N1, N2 |-> p.N2, N3 |-> p.N3, N4 |-> p.N4, status |-> st,
     classification_source |-> src]

\* "LLM" in source
MentionsLLM(src) == \E k \in 1..Len(src) : src[k] \in LLMSources

\* A writer that stores the normalised values instead of their display casing.
apply_lowered(res, n1l, n2l, n3l, n4l, lk) ==
    [res EXCEPT !.N1 = n1l, !.N2 = n2l, !.N3 = n3l, !.N4 = n4l]

apply_canonical(res, n1l, n2l, n3l, n4l, lk) ==
    [res EXCEPT !.N1 = get_canonical(lk, n1l), !.N2 = get_canonical(lk, n2l),
                !.N3 = get_canonical(lk, n3l), !.N4 = get_canonical(lk, n4l)]

Tagged(res, tag) == [res EXCEPT !.classification_source = Append(@, tag)]

Failed(res) == [ok |-> FALSE, row |-> res]
Corrected(res) == [ok |-> TRUE, row |-> res]

\* The elements of a set of N1 values in the order this process iterates them.
InSetOrder(order, set) == SelectSeq(order, LAMBDA x : x \in set)

\* Step B's loop over the level-1 parents of the returned N1.
RECURSIVE ShiftLoop(_, _, _, _)
ShiftLoop(parents, res, l, lk) ==
    IF parents = <<>> THEN Failed(res)
    ELSE LET real_n1 == Head(parents)
             valid_n4s == Get(lk.n1n2n3_to_n4s, <<real_n1, l[1], l[2]>>, {})
             fuzzy_n4 == fuzzy_match(l[3], valid_n4s)
         IN IF <<real_n1, l[1], l[2], l[3]>> \in lk.valid_paths
            THEN Corrected(Tagged(apply_canonical(res, real_n1, l[1], l[2], l[3], lk),
                                  "[shift-corrected]"))
            ELSE IF valid_n4s # {} /\ fuzzy_n4 # "None"
            THEN Corrected(Tagged(apply_canonical(res, real_n1, l[1], l[2], fuzzy_n4, lk),
                                  "[shift-corrected]"))
            ELSE ShiftLoop(Tail(parents), res, l, lk)

\* Step B: level shift detection.
try_level_shift(res, l, lk, order) ==
    IF l[1] \notin lk.valid_n1s /\ l[1] \in lk.valid_n2s
    THEN ShiftLoop(InSetOrder(order, Get(lk.n2_to_n1, l[1], {})), res, l, lk)
    ELSE Failed(res)

\* Step C without the rule for a branch with a single leaf.
try_partial_fuzzy_no_sole_leaf(res, l, lk) ==
    LET valid_n3s == Get(lk.n1n2_to_n3s, <<l[1], l[2]>>, {})
        target_n3 == IF l[3] \in valid_n3s THEN l[3] ELSE fuzzy_match(l[3], valid_n3s)
        valid_n4s == Get(lk.n1n2n3_to_n4s, <<l[1], l[2], target_n3>>, {})
        target_n4 == IF l[4] \in valid_n4s THEN l[4] ELSE fuzzy_match(l[4], valid_n4s)
    IN IF valid_n3s = {} \/ target_n3 = "None" \/ valid_n4s = {} \/ target_n4 = "None"
       THEN Failed(res)
       ELSE Corrected(Tagged(apply_canonical(res, l[1], l[2], target_n3, target_n4, lk),
                             "[fuzzy-corrected]"))

\* Step C: partial path and scoped fuzzy matching.
try_partial_fuzzy(res, l, lk) ==
    LET valid_n3s == Get(lk.n1n2_to_n3s, <<l[1], l[2]>>, {})
        target_n3 == IF l[3] \in valid_n3s THEN l[3] ELSE fuzzy_match(l[3], valid_n3s)
        valid_n4s == Get(lk.n1n2n3_to_n4s, <<l[1], l[2], target_n3>>, {})
        target_n4 == IF l[4] \in valid_n4s THEN l[4]
                     ELSE IF fuzzy_match(l[4], valid_n4s) # "None"
                     THEN fuzzy_match(l[4], valid_n4s)
                     ELSE IF Cardinality(valid_n4s) = 1
                     THEN CHOOSE x \in valid_n4s : TRUE
                     ELSE "None"
    IN IF l[1] \notin lk.valid_n1s \/ l[2] \notin lk.valid_n2s THEN Failed(res)
       ELSE IF valid_n3s = {} THEN Failed(res)
       ELSE IF target_n3 = "None" THEN Failed(res)
       ELSE IF valid_n4s = {} THEN Failed(res)
       ELSE IF target_n4 = "None" THEN Failed(res)
       ELSE Corrected(Tagged(apply_canonical(res, l[1], l[2], target_n3, target_n4, lk),
                             "[fuzzy-corrected]"))

\* Overlap of a stored path with the returned N1/N2/N3.
\* A score that weighs the deeper levels more.
OverlapDeepFirst(p, l) ==
    (IF p[1] = l[1] THEN 1 ELSE 0) + (IF p[2] = l[2] THEN 2 ELSE 0)
        + (IF p[3] = l[3] THEN 3 ELSE 0)

OverlapScore(p, l) ==
    (IF p[1] = l[1] THEN 3 ELSE 0) + (IF p[2] = l[2] THEN 2 ELSE 0)
        + (IF p[3] = l[3] THEN 1 ELSE 0)

\* The first path of the list with the highest score.
BestPath(paths, l) ==
    LET k == CHOOSE i \in 1..Len(paths) :
                 /\ \A j \in 1..Len(paths) : OverlapScore(paths[j], l) <= OverlapScore(paths[i], l)
                 /\ \A j \in 1..(i - 1) : OverlapScore(paths[j], l) < OverlapScore(paths[i], l)
    IN paths[k]

\* Step D: reverse lookup by N4.
\* A step D that trusts the returned N1-N3 once the leaf is known to the
\* taxonomy, and only rewrites the leaf.
try_n4_reverse_leaf_only(res, l, lk) ==
    LET leaf == IF l[4] \in lk.valid_n4s THEN l[4] ELSE fuzzy_match(l[4], lk.valid_n4s)
    IN IF leaf = "None" THEN Failed(res)
       ELSE Corrected(Tagged(apply_canonical(res, l[1], l[2], l[3], leaf, lk),
                             "[n4-reverse]"))

try_n4_reverse(res, l, lk) ==
    LET exact == Get(lk.n4_to_paths, l[4], <<>>)
        fuzzy_n4 == fuzzy_match(l[4], lk.valid_n4s)
        n4l == IF exact = <<>> /\ fuzzy_n4 # "None" THEN fuzzy_n4 ELSE l[4]
        paths == IF exact = <<>> /\ fuzzy_n4 # "None"
                 THEN Get(lk.n4_to_paths, fuzzy_n4, <<>>) ELSE exact
    IN IF paths = <<>> THEN Failed(res)
       ELSE IF Len(paths) = 1
       THEN Corrected(Tagged(apply_canonical(res, paths[1][1], paths[1][2], paths[1][3],
                                             n4l, lk), "[n4-reverse]"))
       ELSE IF OverlapScore(BestPath(paths, l), l) > 0
       THEN Corrected(Tagged(apply_canonical(res, BestPath(paths, l)[1],
                                             BestPath(paths, l)[2], BestPath(paths, l)[3],
                                             n4l, lk), "[n4-reverse]"))
       ELSE Failed(res)

\* One iteration of validate_and_correct's loop: the row afterwards and the
\* counter of stats that it incremented.
validate_row(res, lk, order) ==
    LET l == <<Lower(res.N1), Lower(res.N2), Lower(res.N3), Lower(res.N4)>>
        b == try_level_shift(res, l, lk, order)
        c == try_partial_fuzzy(res, l, lk)
        d == try_n4_reverse(res, l, lk)
    IN IF ~MentionsLLM(res.classification_source)
       THEN [row |-> res, step |-> "skipped"]
       ELSE IF res.N1 = "" \/ l[1] \in {"não identificado", "nao identificado"}
       THEN [row |-> res, step |-> "skipped"]
       ELSE IF l \in lk.valid_paths
       THEN [row |-> apply_canonical(res, l[1], l[2], l[3], l[4], lk),
             step |-> "exact_match"]
       ELSE IF b.ok THEN [row |-> b.row, step |-> "level_shift"]
       ELSE IF c.ok THEN [row |-> c.row, step |-> "partial_fuzzy"]
       ELSE IF d.ok THEN [row |-> d.row, step |-> "n4_reverse"]
       ELSE [row |-> Tagged(res, "[unvalidated]"), step |-> "no_match"]

\* The keys validate_and_correct looks up in the lookup's maps for one row, as
\* pairs <<map, key>>: step B reads n2_to_n1 and, for each parent it tries
\* without an exact shifted path, n1n2n3_to_n4s; step C reads n1n2_to_n3s and
\* n1n2n3_to_n4s; step D reads n4_to_paths.
lookup_reads(res, lk, order) ==
    LET l == LowerPath(res)
        step == validate_row(res, lk, order).step
        parents == InSetOrder(order, Get(lk.n2_to_n1, l[1], {}))
        shifted(k) ==
            \/ <<parents[k], l[1], l[2], l[3]>> \in lk.valid_paths
            \/ fuzzy_match(l[3], Get(lk.n1n2n3_to_n4s, <<parents[k], l[1], l[2]>>, {})) # "None"
        tried == {k \in 1..Len(parents) : \A j \in 1..(k - 1) : ~shifted(j)}
        readsB ==
            IF l[1] \notin lk.valid_n1s /\ l[1] \in lk.valid_n2s
            THEN {<<"n2_to_n1", l[1]>>}
                    \cup {<<"n1n2n3_to_n4s", <<parents[k], l[1], l[2]>>>> :
                             k \in {j \in tried :
                                       <<parents[j], l[1], l[2], l[3]>> \notin lk.valid_paths}}
            ELSE {}
        valid_n3s == Get(lk.n1n2_to_n3s, <<l[1], l[2]>>, {})
        target_n3 == IF l[3] \in valid_n3s THEN l[3] ELSE fuzzy_match(l[3], valid_n3s)
        readsC ==
            IF l[1] \in lk.valid_n1s /\ l[2] \in lk.valid_n2s
            THEN {<<"n1n2_to_n3s", <<l[1], l[2]>>>>}
                    \cup (IF target_n3 # "None"
                          THEN {<<"n1n2n3_to_n4s", <<l[1], l[2], target_n3>>>>} ELSE {})
            ELSE {}
        fuzzy_n4 == fuzzy_match(l[4], lk.valid_n4s)
        readsD ==
            {<<"n4_to_paths", l[4]>>}
                \cup (IF Get(lk.n4_to_paths, l[4], <<>>) = <<>> /\ fuzzy_n4 # "None"
                      THEN {<<"n4_to_paths", fuzzy_n4>>} ELSE {})
    IN CASE step \in {"skipped", "exact_match"} -> {}
         [] step = "level_shift" -> readsB
         [] step = "partial_fuzzy" -> readsB \cup readsC
         [] OTHER -> readsB \cup readsC \cup readsD

\* A map after its keys were read by subscript: a defaultdict inserts the
\* default under every key it does not hold.
Subscripted(map, keys, default) ==
    [k \in (DOMAIN map) \cup keys |-> IF k \in DOMAIN map THEN map[k] ELSE default]

KeysOf(reads, name) == {r[2] : r \in {x \in reads : x[1] = name}}

\* The lookup after reads made with map[key].
after_subscript(lk, reads) ==
    [lk EXCEPT !.n2_to_n1 = Subscripted(@, KeysOf(reads, "n2_to_n1"), {}),
               !.n4_to_paths = Subscripted(@, KeysOf(reads, "n4_to_paths"), <<>>),
               !.n1n2_to_n3s = Subscripted(@, KeysOf(reads, "n1n2_to_n3s"), {}),
               !.n1n2n3_to_n4s = Subscripted(@, KeysOf(reads, "n1n2n3_to_n4s"), {})]

\* The lookup after reads made with map.get(key): dict.get returns the default
\* for a key the map does not hold and inserts nothing.
after_get(lk, reads) == lk

\* The paths the LLM collaborator answers with in the model: the entries of
\* the pool as stored, an answer one level too deep, an answer in another
\* casing, answers with a foreign or misspelt level, answers foreign to the
\* taxonomy, and the placeholder.
LLMAnswerPaths ==
    TaxonomyPool \cup
    { Path("Tubulações", "Aço", "Tubo Industrial", "Tubo Industrial"),
      Path("mro", "tubulações", "aço", "tubo industrial"),
      Path("MRO", "Tubulações", "Aço", "Conexão"),
      Path("MRO", "Tubulações", "Aco", "Tubo Industrial"),
      Path("Obras", "Hidráulica", "Canos", "Tubo Industrial"),
      Path("MRO", "Hidráulica", "Canos", "Tubo Industrial"),
      Path("Hidráulica", "Canos", "PVC", "Tubo Industrial"),
      Path("Elétrica", "Cabos", "Cobre", "Cabo Flexível"),
      Path(NAO_IDENTIFICADO, NAO_IDENTIFICADO, NAO_IDENTIFICADO, NAO_IDENTIFICADO) }

\* The rows handed to the cascade: what the LLM answered, merged by the chunk
\* processor, and a row of the statistical model.
CascadeRows ==
    {VRow(p, "Único", <<"LLM (Batch)">>) : p \in LLMAnswerPaths}
        \cup {VRow(Path("MRO", "Tubulações", "Aco", "Tubo Industrial"), "Único", <<"ML">>)}

\* validate_and_correct(chunk_results, hierarchy, lookup): the loop settles
\* each row on its own, so the list holds one row.
Validate ==
    /\ UNCHANGED <<schedVars, clsVars, apiVars, mdlVars, fanVars>>
    /\ vpasses < MaxPasses
    /\ vrows' = [i \in 1..Len(vrows) |-> validate_row(vrows[i], lookup, set_order).row]
    /\ vsteps' = [i \in 1..Len(vrows) |-> validate_row(vrows[i], lookup, set_order).step]
    /\ vpasses' = vpasses + 1
    /\ lookup' = after_get(lookup, UNION {lookup_reads(vrows[i], lookup, set_order) :
                                            i \in 1..Len(vrows)})
    /\ UNCHANGED <<hierarchy, set_order, vorig>>

InitCascade ==
    /\ InitStore
    /\ cap = 1
    /\ ClsOff
    /\ ApiOff
    /\ MdlOff
    /\ FanOff
    /\ hierarchy \in UNION {[1..n -> TaxonomyPool] : n \in 1..MaxEntries}
    /\ lookup = HierarchyLookup(hierarchy)
    /\ set_order \in Perms({Lower(e.N1) : e \in TaxonomyPool})
    /\ vrows \in {<<r>> : r \in CascadeRows}
    /\ vorig = vrows
    /\ vsteps = <<"">>
    /\ vpasses = 0

NextCascade == Validate

SpecCascade == InitCascade /\ [][NextCascade]_vars

(***************************************************************************)
(* Properties of Part III.                                                 *)
(***************************************************************************)
RowPath(row) == Path(row.N1, row.N2, row.N3, row.N4)

\* The row's path is an entry of the taxonomy, letter for letter.
Stored(row) == \E k \in 1..Len(hierarchy) : hierarchy[k] = RowPath(row)

\* No value occurs in the taxonomy in two casings.
OneCasing ==
    \A a, b \in 1..Len(hierarchy) : \A l, m \in {"N1", "N2", "N3", "N4"} :
        Lower(hierarchy[a][l]) = Lower(hierarchy[b][m])
            => hierarchy[a][l] = hierarchy[b][m]

LLMRow(row) == MentionsLLM(row.classification_source)

\* C19 (as amended): for an LLM row whose (N1, N2, N3, N4) is a stored
\* taxonomy path in its stored casing, the cascade applied once or twice settles
\* the row in step A with its source and status unchanged, and yields the path
\* in the lookup's canonical casing: each value in the casing of its last
\* occurrence in the taxonomy.  That is exactly the stored path when no value
\* occurs in the taxonomy in two casings.
C19_ExactPathIdempotent ==
    (vpasses >= 1 /\ LLMRow(vorig[1]) /\ Stored(vorig[1])) =>
        /\ vsteps[1] = "exact_match"
        /\ vrows[1].classification_source = vorig[1].classification_source
        /\ vrows[1].status = vorig[1].status
        /\ \A l \in {"N1", "N2", "N3", "N4"} :
              vrows[1][l] = LastCasing(KeptEntries(hierarchy), Lower(vorig[1][l]))
        /\ OneCasing => RowPath(vrows[1]) = RowPath(vorig[1])

\* The cascade has run twice over a stored path of a two-entry taxonomy and
\* the row is as it was handed in.
C19_Witness ==
    /\ vpasses = 2
    /\ Len(hierarchy) = 2
    /\ LLMRow(vorig[1]) /\ Stored(vorig[1])
    /\ vsteps[1] = "exact_match"
    /\ vrows[1] = vorig[1]

\* C19 (as stated): for an LLM row whose (N1, N2, N3, N4) is a stored taxonomy
\* path in its stored casing, the cascade applied once or twice yields exactly
\* that same path through step A, with the row's source unchanged.
C19_AsStated ==
    (vpasses >= 1 /\ LLMRow(vorig[1]) /\ Stored(vorig[1])) =>
        /\ vsteps[1] = "exact_match"
        /\ vrows[1].classification_source = vorig[1].classification_source
        /\ RowPath(vrows[1]) = RowPath(vorig[1])

\* The returned N1 is no level-1 value but a level-2 value, and under one of
\* its level-1 parents the returned levels, shifted down by one, are a stored
\* path.
ShiftedPathStored(row) ==
    LET l == LowerPath(row)
    IN /\ l[1] \notin lookup.valid_n1s
       /\ l[1] \in lookup.valid_n2s
       /\ \E p \in lookup.n2_to_n1[l[1]] : <<p, l[1], l[2], l[3]>> \in lookup.valid_paths

\* C20 (as stated): if the N1 returned by the LLM is not a valid level-1 value
\* but is a valid level-2 value, and for some level-1 parent P of it the
\* shifted path (P, returned N1, returned N2, returned N3) is a stored path,
\* then the cascade outputs such an exact stored shifted path (its N4 is the
\* returned N3) and marks the row shift-corrected.
C20_ShiftToExactStoredPath ==
    (vpasses = 1 /\ LLMRow(vorig[1]) /\ ShiftedPathStored(vorig[1])) =>
        LET l == LowerPath(vorig[1])
            out == LowerPath(vrows[1])
        IN /\ vsteps[1] = "level_shift"
           /\ vrows[1].classification_source =
                 Append(vorig[1].classification_source, "[shift-corrected]")
           /\ out \in lookup.valid_paths
           /\ out[1] \in lookup.n2_to_n1[l[1]]
           /\ <<out[2], out[3], out[4]>> = <<l[1], l[2], l[3]>>

\* The leaf step D looks up for a row: the returned N4 if it is a stored leaf,
\* else its closest stored leaf ("None" if there is none).
ReverseLeaf(row) ==
    IF LowerPath(row)[4] \in lookup.valid_n4s THEN LowerPath(row)[4]
    ELSE fuzzy_match(LowerPath(row)[4], lookup.valid_n4s)

\* The taxonomy entries (by position) that end in a leaf.
EntriesWithLeaf(leaf) ==
    {k \in 1..Len(KeptEntries(hierarchy)) : LowerPath(KeptEntries(hierarchy)[k])[4] = leaf}

StepsABCFailed == vsteps[1] \in {"n4_reverse", "no_match"}

\* C21 (as amended): when steps A-C fail and at least one taxonomy entry has
\* the returned N4 as its leaf (exactly, or by fuzzy match): if exactly one
\* entry has it, that entry's path is adopted; if several entries have it
\* (two equal entries count as two), each is scored 3 for an N1, 2 for an N2
\* and 1 for an N3 equal to the returned one, and an entry with the maximal
\* score is adopted provided that score is positive; when no entry shares a
\* level with the row, step D fails and the row is left as returned.
C21_ReverseLookup ==
    (vpasses = 1 /\ LLMRow(vorig[1]) /\ StepsABCFailed) =>
        LET l == LowerPath(vorig[1])
            es == KeptEntries(hierarchy)
            with == EntriesWithLeaf(ReverseLeaf(vorig[1]))
            score(k) == (IF LowerPath(es[k])[1] = l[1] THEN 3 ELSE 0)
                          + (IF LowerPath(es[k])[2] = l[2] THEN 2 ELSE 0)
                          + (IF LowerPath(es[k])[3] = l[3] THEN 1 ELSE 0)
            out == LowerPath(vrows[1])
        IN IF with = {} THEN vsteps[1] = "no_match"
           ELSE IF Cardinality(with) = 1
           THEN vsteps[1] = "n4_reverse" /\ \E k \in with : out = LowerPath(es[k])
           ELSE IF \E k \in with : score(k) > 0
           THEN /\ vsteps[1] = "n4_reverse"
                /\ \E k \in with : /\ out = LowerPath(es[k])
                                    /\ \A j \in with : score(j) <= score(k)
           ELSE vsteps[1] = "no_match" /\ RowPath(vrows[1]) = RowPath(vorig[1])

\* Two entries end in the returned leaf; the one that shares N1 with the row
\* was adopted over the one, listed first, that shares N2 with it.
C21_Witness ==
    /\ vpasses = 1
    /\ vsteps[1] = "n4_reverse"
    /\ Len(hierarchy) = 2
    /\ hierarchy[1] = Path("Obras", "Hidráulica", "Aço", "Tubo Industrial")
    /\ RowPath(vorig[1]) = Path("MRO", "Hidráulica", "Canos", "Tubo Industrial")
    /\ RowPath(vrows[1]) = Path("MRO", "Tubulações", "Aço", "Tubo Industrial")

\* C21 (as stated): when steps A-C fail and at least one stored path has the
\* returned N4 as its leaf (exactly, or by fuzzy match): if exactly one such
\* full path exists it is adopted; if several exist, a path with the maximal
\* overlap score against the returned N1/N2/N3 is adopted.
C21_AsStated ==
    (vpasses = 1 /\ LLMRow(vorig[1]) /\ StepsABCFailed) =>
        LET l == LowerPath(vorig[1])
            paths == {p \in lookup.valid_paths : p[4] = ReverseLeaf(vorig[1])}
            score(p) == (IF p[1] = l[1] THEN 3 ELSE 0) + (IF p[2] = l[2] THEN 2 ELSE 0)
                          + (IF p[3] = l[3] THEN 1 ELSE 0)
            out == LowerPath(vrows[1])
        IN paths # {} =>
              /\ vsteps[1] = "n4_reverse"
              /\ out \in paths
              /\ \A q \in paths : score(q) <= score(out)

\* Step C was reached: the row is an LLM row that steps A and B did not settle.
StepCReached == vsteps[1] \in {"partial_fuzzy", "n4_reverse", "no_match"}

\* The N3 that step C resolves inside the returned (N1, N2) branch, "None" if
\* the branch does not exist or holds no N3 close to the returned one.
ResolvedN3(row) ==
    LET l == LowerPath(row)
        n3s == Get(lookup.n1n2_to_n3s, <<l[1], l[2]>>, {})
    IN IF l[3] \in n3s THEN l[3] ELSE fuzzy_match(l[3], n3s)

\* The leaves stored under the resolved (N1, N2, N3) branch.
BranchLeaves(row) ==
    Get(lookup.n1n2n3_to_n4s,
        <<LowerPath(row)[1], LowerPath(row)[2], ResolvedN3(row)>>, {})

\* C22: in step C, when the returned N1 and N2 are valid and N3 resolves
\* (exactly or by fuzzy match) inside the (N1, N2) branch: a branch with exactly
\* one leaf has that leaf adopted whatever N4 was returned; a branch with
\* several leaves, none of which the returned N4 matches (exactly or by fuzzy
\* match), makes step C fail, and the row goes on to step D.
C22_SoleLeafAdopted ==
    (vpasses = 1 /\ LLMRow(vorig[1]) /\ StepCReached /\ ResolvedN3(vorig[1]) # "None") =>
        LET l == LowerPath(vorig[1])
            leaves == BranchLeaves(vorig[1])
        IN /\ Cardinality(leaves) = 1 =>
                 /\ vsteps[1] = "partial_fuzzy"
                 /\ LowerPath(vrows[1])
                        = <<l[1], l[2], ResolvedN3(vorig[1]), CHOOSE x \in leaves : TRUE>>
           /\ (Cardinality(leaves) > 1 /\ l[4] \notin leaves
                    /\ fuzzy_match(l[4], leaves) = "None") =>
                 vsteps[1] \in {"n4_reverse", "no_match"}

\* The returned branch holds one leaf, and a row that came back with a leaf
\* unknown to the taxonomy ("Conexão") got the leaf of the branch.
C22_Witness ==
    /\ vpasses = 1
    /\ vsteps[1] = "partial_fuzzy"
    /\ Cardinality(BranchLeaves(vorig[1])) = 1
    /\ vorig[1].N4 = "Conexão"
    /\ vrows[1].N4 = "Tubo Industrial"

\* C25: running the cascade over any rows, including rows whose values do not
\* occur in the taxonomy, never changes the Hierarchy Lookup: every set and map
\* of it holds what HierarchyLookup built from the taxonomy, before and after
\* each run, so that every run over the same lookup reads the same contents.
C25_LookupNeverChanges == lookup = HierarchyLookup(hierarchy)

\* The cascade ran twice over a row whose leaf no taxonomy entry has: step D
\* asked n4_to_paths for that leaf, and the map still has no such key.
C25_Witness ==
    /\ vpasses = 2
    /\ vsteps[1] = "no_match"
    /\ <<"n4_to_paths", LowerPath(vorig[1])[4]>> \in lookup_reads(vorig[1], lookup, set_order)
    /\ LowerPath(vorig[1])[4] \notin DOMAIN lookup.n4_to_paths

CorrectingSteps == {"exact_match", "level_shift", "partial_fuzzy", "n4_reverse"}

Unvalidated(row) ==
    \E k \in 1..Len(row.classification_source) :
        row.classification_source[k] = "[unvalidated]"

\* C26: whenever the cascade corrects a row through step A, B, C or D, the
\* row's resulting (N1, N2, N3, N4), lower-cased, is one of the lookup's valid
\* paths; a row whose result is not a valid path carries the unvalidated tag
\* or was skipped.
C26_CorrectedRowsAreValidPaths ==
    vpasses >= 1 =>
        \A i \in 1..Len(vrows) :
            /\ vsteps[i] \in CorrectingSteps => LowerPath(vrows[i]) \in lookup.valid_paths
            /\ LowerPath(vrows[i]) \notin lookup.valid_paths =>
                  vsteps[i] = "skipped" \/ Unvalidated(vrows[i])

\* A row that was not a valid path came out of step B, C or D as one, and
\* another run of the cascade found it valid in step A.
C26_Witness ==
    /\ vpasses = 2
    /\ vsteps[1] = "exact_match"
    /\ LowerPath(vorig[1]) \notin lookup.valid_paths
    /\ LowerPath(vrows[1]) \in lookup.valid_paths
    /\ \E k \in 1..Len(vrows[1].classification_source) :
          vrows[1].classification_source[k]
              \in {"[shift-corrected]", "[fuzzy-corrected]", "[n4-reverse]"}

(***************************************************************************)
(* Part IV: the LLM collaborator's sub-batch call (_call_openai_api).      *)
(***************************************************************************)
max_retries == 3

\* What one requests.post can end in: an exception (connection error,
\* timeout), a 200, a 429 whose Retry-After header is absent or an integer,
\* a 429 whose Retry-After header int() rejects, another status.
TransportOutcomes == {"exception", "200", "429", "429 bad Retry-After", "500"}

StatusOf(outcome) ==
    CASE outcome = "200" -> "200"
      [] outcome \in {"429", "429 bad Retry-After"} -> "429"
      [] OTHER -> "500"

\* An exception inside the loop's try block.
Raises(outcome) == outcome \in {"exception", "429 bad Retry-After"}

\* A handler that gives up by re-raising after the last attempt.
AfterExceptionReraise(a) == IF a < max_retries THEN "retry" ELSE "raise"

\* The except branch of the retry loop.
AfterException(a) == IF a < max_retries THEN "retry" ELSE "fallback"

ItemTexts == <<"a", "b", "c", "d">>

\* An element of the parsed JSON list: an object, or a value without .get().
Entry(item, n1, n2) ==
    [isdict |-> TRUE, item |-> item, N1 |-> n1, N2 |-> n2, N3 |-> "L3", N4 |-> "L4"]
NotDict == [isdict |-> FALSE, item |-> "", N1 |-> "", N2 |-> "", N3 |-> "", N4 |-> ""]

EntryPool ==
    { Entry("a", "L1", "L2"), Entry("b", "L1", "L2"), Entry("a", "", "L2"),
      Entry("a", "", ""), Entry("", "L1", "L2"), NotDict }

\* The body of a 200 response: not JSON or without choices ("malformed"), an
\* object with an "error" key, an object or scalar of no expected shape, or
\* a list of entries (given directly, wrapped in an object, or as one object
\* with N1/N2 keys).
Bodies ==
    { [kind |-> k, parsed |-> <<>>] : k \in {"malformed", "error", "unexpected"} }
      \cup { [kind |-> "list", parsed |-> l] :
               l \in UNION { [1..n -> EntryPool] : n \in 0..MaxParsed } }

Fallbacks(its) == [i \in 1..Len(its) |-> create_manual_fallback]

HasCategory(e) == e.N1 # "" \/ e.N2 # ""

Formatted(e) ==
    [N1 |-> e.N1, N2 |-> e.N2, N3 |-> e.N3, N4 |-> e.N4,
     confidence |-> LLM_DEFAULT_CONFIDENCE]

\* Strategy 2: the first entry whose item text is the item's; 0 if none.
\* Reading an entry that is no object raises.
ScanStop(parsed, text) ==
    IF \E k \in 1..Len(parsed) : ~parsed[k].isdict \/ parsed[k].item = text
    THEN CHOOSE k \in 1..Len(parsed) :
            /\ ~parsed[k].isdict \/ parsed[k].item = text
            /\ \A j \in 1..(k - 1) : parsed[j].isdict /\ parsed[j].item # text
    ELSE 0

\* The loop "for idx, item_text in enumerate(items)" from index idx on:
\* ok is FALSE when an exception leaves the loop.
RECURSIVE FormatFrom(_, _, _)
FormatFrom(its, idx, parsed) ==
    IF idx > Len(its) THEN [ok |-> TRUE, out |-> <<>>]
    ELSE LET byIndex == idx <= Len(parsed)
             stop == ScanStop(parsed, its[idx])
             m1 == byIndex /\ parsed[idx].isdict /\ HasCategory(parsed[idx])
             m2 == ~m1 /\ stop # 0
             m3 == ~m1 /\ ~m2 /\ Len(parsed) > 0
             match == IF m1 THEN parsed[idx]
                      ELSE IF m2 THEN parsed[stop]
                      ELSE IF m3 THEN parsed[1] ELSE NotDict
             rest == FormatFrom(its, idx + 1, IF m3 THEN Tail(parsed) ELSE parsed)
             one == IF (m1 \/ m2 \/ m3) /\ HasCategory(match)
                    THEN Formatted(match) ELSE create_manual_fallback
         IN IF (byIndex /\ ~parsed[idx].isdict) \/ (m2 /\ ~parsed[stop].isdict)
            THEN [ok |-> FALSE, out |-> <<>>]
            ELSE [ok |-> rest.ok, out |-> <<one>> \o rest.out]

\* The code after the retry loop.
parse_response(resp, body, its) ==
    IF resp # "200" \/ body.kind # "list" THEN Fallbacks(its)
    ELSE IF FormatFrom(its, 1, body.parsed).ok
         THEN FormatFrom(its, 1, body.parsed).out
         ELSE Fallbacks(its)

\* One pass of the retry loop: one requests.post and what follows it.
ApiSend ==
    /\ UNCHANGED <<schedVars, clsVars, valVars, mdlVars, fanVars>>
    /\ apc = "send"
    /\ api_attempt <= max_retries
    /\ \E o \in TransportOutcomes :
          /\ apiLog' = Append(apiLog, o)
          /\ response' = IF o = "exception" THEN response ELSE StatusOf(o)
          /\ IF o = "200"
             THEN /\ apc' = "parse"
                  /\ UNCHANGED <<api_attempt, api_return>>
             ELSE IF Raises(o)
             THEN /\ apc' = CASE AfterException(api_attempt) = "retry" -> "send"
                              [] AfterException(api_attempt) = "fallback" -> "returned"
                              [] OTHER -> "raised"
                  /\ api_attempt' = IF AfterException(api_attempt) = "retry"
                                    THEN api_attempt + 1 ELSE api_attempt
                  /\ api_return' = IF AfterException(api_attempt) = "fallback"
                                   THEN Fallbacks(api_items) ELSE api_return
             ELSE /\ apc' = IF api_attempt < max_retries THEN "send" ELSE "parse"
                  /\ api_attempt' = IF api_attempt < max_retries
                                    THEN api_attempt + 1 ELSE api_attempt
                  /\ UNCHANGED api_return
    /\ UNCHANGED <<api_items, api_body>>

\* The code after the loop: the status test, the parsing of the body and the
\* mapping of the entries back to the items.
ApiParse ==
    /\ UNCHANGED <<schedVars, clsVars, valVars, mdlVars, fanVars>>
    /\ apc = "parse"
    /\ \E body \in Bodies :
          /\ response # "200" => body.kind = "malformed"
          /\ api_body' = IF response = "200" THEN body ELSE api_body
          /\ api_return' = parse_response(response, body, api_items)
    /\ apc' = "returned"
    /\ UNCHANGED <<api_items, api_attempt, response, apiLog>>

InitApi ==
    /\ InitStore
    /\ cap = 1
    /\ ClsOff
    /\ ValOff
    /\ MdlOff
    /\ FanOff
    /\ api_items \in {SubSeq(ItemTexts, 1, n) : n \in 1..MaxItems}
    /\ api_attempt = 0
    /\ apc = "send"
    /\ response = "None"
    /\ apiLog = <<>>
    /\ api_body = [kind |-> "none", parsed |-> <<>>]
    /\ api_return = <<>>

NextApi ==
    \/ ApiSend
    \/ ApiParse

SpecApi == InitApi /\ [][NextApi]_vars

AllPlaceholders ==
    \A i \in 1..Len(api_return) : api_return[i] = create_manual_fallback

\* C18: for every sequence of transport outcomes, one sub-batch call makes at
\* most 4 HTTP attempts, makes none after a 200 response, never raises to its
\* caller, and returns exactly one result per input item; every result is the
\* placeholder when the attempts are exhausted without a 200 or the body of
\* the 200 response cannot be parsed.
C18_BoundedRetriesNoRaise ==
    /\ Len(apiLog) <= max_retries + 1
    /\ \A k \in 1..(Len(apiLog) - 1) : apiLog[k] # "200"
    /\ apc # "raised"
    /\ apc = "returned" =>
          /\ Len(api_return) = Len(api_items)
          /\ (\A k \in 1..Len(apiLog) : apiLog[k] # "200") => AllPlaceholders
          /\ api_body.kind \in {"malformed", "error", "unexpected"} => AllPlaceholders

\* Four attempts ended in an exception, a 429, another status and a timeout:
\* the call has returned the placeholder for each of its two items.
C18_Witness ==
    /\ apc = "returned"
    /\ Len(api_items) = 2
    /\ Len(apiLog) = max_retries + 1
    /\ apiLog[1] = "exception" /\ apiLog[2] = "429" /\ apiLog[3] = "500"
    /\ apiLog[4] = "exception"
    /\ Len(api_return) = 2
    /\ AllPlaceholders

\* The response holds no entry for item idx: none at its position and none
\* that names its text.
NoEntryFor(idx) ==
    /\ idx > Len(api_body.parsed)
    /\ \A k \in 1..Len(api_body.parsed) : api_body.parsed[k].item # api_items[idx]

\* C28: within one sub-batch, an item for which the response holds no entry
\* (neither at the item's position nor by item text), e.g. because the
\* response has fewer entries than items, receives the placeholder and never
\* the classification returned for another item.
C28_MissingEntryGetsPlaceholder ==
    (apc = "returned" /\ api_body.kind = "list") =>
        \A idx \in 1..Len(api_items) :
            NoEntryFor(idx) => api_return[idx] = create_manual_fallback

(***************************************************************************)
(* Part V: operations on the model store of one sector.                    *)
(***************************************************************************)
MAX_VERSIONS == 3

VersionIds == 1..MaxTrainings

HistoryEntry(v, st) == [version_id |-> v, status |-> st]

MaxOf(S) == CHOOSE x \in S : \A y \in S : y <= x

\* The version a training run writes: one more than the highest version of
\* the history, v_1 when there is no history.
next_version_num ==
    IF history_file /\ model_history # <<>>
    THEN MaxOf({model_history[k].version_id : k \in 1..Len(model_history)}) + 1
    ELSE 1

Deactivated(h) == [k \in 1..Len(h) |-> HistoryEntry(h[k].version_id, "inactive")]

\* The history after a successful run wrote version v: the new entry on top,
\* cut to MAX_VERSIONS entries.
HistoryAfterTraining(v) ==
    LET all == <<HistoryEntry(v, "active")>> \o Deactivated(model_history)
    IN SubSeq(all, 1, IF Len(all) > MAX_VERSIONS THEN MAX_VERSIONS ELSE Len(all))

versions_to_remove(v) ==
    LET all == <<HistoryEntry(v, "active")>> \o Deactivated(model_history)
    IN {all[k].version_id : k \in (MAX_VERSIONS + 1)..Len(all)}

\* TrainModel for the sector, from the write of dataset_master.csv on:
\* train_model_core creates versions/v_n first; a run that stops before the
\* artifacts are dumped (too few rows, a missing column, an exception while
\* fitting) leaves the directory and writes nothing else.
TrainModel ==
    /\ UNCHANGED <<schedVars, clsVars, valVars, apiVars, fanVars>>
    /\ trainings < MaxTrainings
    /\ trainings' = trainings + 1
    /\ master_file' = TRUE
    /\ LET v == next_version_num
           run == trainings + 1
       IN \/ /\ version_dirs' = [version_dirs EXCEPT ![v].exists = TRUE]
             /\ last_op' = "train_failed"
             /\ UNCHANGED <<model_history, history_file, root_artifacts, root_hierarchy>>
          \/ /\ version_dirs' =
                   [n \in VersionIds |->
                       IF n = v THEN [exists |-> TRUE, artifacts |-> run, hierarchy |-> run]
                       ELSE IF n \in versions_to_remove(v) THEN NoDir
                       ELSE version_dirs[n]]
             /\ root_artifacts' = run
             /\ root_hierarchy' = run
             /\ model_history' = HistoryAfterTraining(v)
             /\ history_file' = TRUE
             /\ last_op' = "train"
    /\ UNCHANGED <<model_cache, loaded>>

\* SetActiveModel(sector, version_id).
SetActiveModel(v) ==
    /\ UNCHANGED <<schedVars, clsVars, valVars, apiVars, fanVars>>
    /\ IF ~version_dirs[v].exists
       THEN /\ last_op' = "activate_404"
            /\ UNCHANGED <<model_history, root_artifacts, root_hierarchy>>
       ELSE IF version_dirs[v].artifacts = 0
       THEN /\ last_op' = "activate_500"
            /\ UNCHANGED <<model_history, root_artifacts, root_hierarchy>>
       ELSE /\ root_artifacts' = version_dirs[v].artifacts
            /\ root_hierarchy' = IF version_dirs[v].hierarchy # 0
                                 THEN version_dirs[v].hierarchy ELSE root_hierarchy
            /\ model_history' =
                  [k \in 1..Len(model_history) |->
                      HistoryEntry(model_history[k].version_id,
                                   IF model_history[k].version_id = v
                                   THEN "active" ELSE "inactive")]
            /\ last_op' = "activate"
    /\ UNCHANGED <<history_file, version_dirs, master_file, model_cache, loaded, trainings>>

Without(h, v) == SelectSeq(h, LAMBDA e : e.version_id # v)

\* DeleteTrainingData(sector, version=v_n).
DeleteTrainingData(v) ==
    /\ UNCHANGED <<schedVars, clsVars, valVars, apiVars, fanVars>>
    /\ IF ~master_file
       THEN /\ last_op' = "delete_404"
            /\ UNCHANGED <<model_history, version_dirs, root_hierarchy>>
       ELSE IF ~history_file
       THEN /\ last_op' = "delete"
            /\ UNCHANGED <<model_history, version_dirs, root_hierarchy>>
       ELSE LET was_active == \E k \in 1..Len(model_history) :
                                  /\ model_history[k].version_id = v
                                  /\ model_history[k].status = "active"
                history == Without(model_history, v)
                new_active_version == history[1].version_id
            IN /\ IF was_active /\ history # <<>>
                  THEN /\ model_history' = [history EXCEPT ![1].status = "active"]
                       /\ root_hierarchy' =
                             IF version_dirs[new_active_version].hierarchy # 0
                             THEN version_dirs[new_active_version].hierarchy
                             ELSE root_hierarchy
                  ELSE /\ model_history' = history
                       /\ UNCHANGED root_hierarchy
               /\ version_dirs' = [version_dirs EXCEPT ![v] = NoDir]
               /\ last_op' = "delete"
    /\ UNCHANGED <<history_file, root_artifacts, master_file, model_cache, loaded, trainings>>

\* load_model(sector): the cached tuple if every value of it is set, else the
\* files of the sector root, which are cached.
LoadModel ==
    /\ UNCHANGED <<schedVars, clsVars, valVars, apiVars, fanVars>>
    /\ IF model_cache.artifacts # 0 /\ model_cache.hierarchy # 0
       THEN /\ loaded' = model_cache
            /\ last_op' = "load"
            /\ UNCHANGED model_cache
       ELSE IF ~master_file \/ root_artifacts = 0 \/ root_hierarchy = 0
       THEN /\ last_op' = "load_raised"
            /\ UNCHANGED <<model_cache, loaded>>
       ELSE /\ model_cache' = [artifacts |-> root_artifacts, hierarchy |-> root_hierarchy]
            /\ loaded' = model_cache'
            /\ last_op' = "load"
    /\ UNCHANGED <<model_history, history_file, version_dirs, root_artifacts,
                   root_hierarchy, master_file, trainings>>

\* The process ends and another one starts with an empty _MODEL_CACHE.
ProcessRestart ==
    /\ UNCHANGED <<schedVars, clsVars, valVars, apiVars, fanVars>>
    /\ model_cache # NoModel
    /\ model_cache' = NoModel
    /\ last_op' = "restart"
    /\ UNCHANGED <<model_history, history_file, version_dirs, root_artifacts,
                   root_hierarchy, master_file, loaded, trainings>>

InitModels ==
    /\ InitStore
    /\ cap = 1
    /\ ClsOff
    /\ ValOff
    /\ ApiOff
    /\ MdlOff
    /\ FanOff

NextModels ==
    \/ TrainModel
    \/ \E v \in VersionIds : SetActiveModel(v)
    \/ \E v \in VersionIds : DeleteTrainingData(v)
    \/ LoadModel
    \/ ProcessRestart

SpecModels == InitModels /\ [][NextModels]_vars

(***************************************************************************)
(* Properties of Part V.                                                   *)
(***************************************************************************)
VersionDirectories == {n \in VersionIds : version_dirs[n].exists}

\* C24: after any sequence of training runs for a sector (successful or not),
\* at most 3 version directories exist under the sector's versions directory.
C24_AtMostThreeVersionDirs == Cardinality(VersionDirectories) <= MAX_VERSIONS

\* The versions the history marks as active.
ActiveVersions ==
    {model_history[k].version_id :
        k \in {j \in 1..Len(model_history) : model_history[j].status = "active"}}

\* C29: after any sequence of TrainModel, SetActiveModel and
\* DeleteTrainingData(version) operations, whenever the history is non-empty
\* the vectorizer, classifier and label-encoder files of the sector root are
\* the ones stored for the version the history marks as active.
C29_RootArtifactsOfActiveVersion ==
    (history_file /\ model_history # <<>>) =>
        \E v \in ActiveVersions :
            /\ version_dirs[v].artifacts # 0
            /\ root_artifacts = version_dirs[v].artifacts

\* C30: after a TrainModel or SetActiveModel operation completed, the next
\* load_model call of the same process returns the artifacts of the sector
\* root as the operation left them, never the tuple cached before the change.
C30_LoadAfterChangeReturnsNewArtifacts ==
    [][(last_op \in {"train", "activate"} /\ last_op' = "load") =>
          loaded' = [artifacts |-> root_artifacts, hierarchy |-> root_hierarchy]]_vars

(***************************************************************************)
(* Part VI: the fan-out of classify_items_with_llm.                        *)
(***************************************************************************)
\* A slot of 'results' that is still None.
NoneResult == [item |-> "None", explanation |-> "None"]

\* _create_manual_fallback(item_text, reason) and _create_empty_result(): the
\* placeholder; it names no item.
ManualFallback(reason) == [item |-> "", explanation |-> reason]

EmptyResult == [item |-> "", explanation |-> "LLM não configurado"]

\* What a sub-batch returns for one of its items: a classification of that
\* item, or the placeholder.
SubBatchResults(item) ==
    { [item |-> item, explanation |-> "Classificado via Azure OpenAI (UNSPSC)"],
      ManualFallback("Item não retornado pelo LLM") }

Description(i) == "d" \o ToString(i)

\* range(0, len(descriptions), chunk_size)
ChunkStarts(n) == {i \in 0..(n - 1) : i % chunk_size = 0}

\* descriptions[i:i + chunk_size]
ChunkItems(start) ==
    SubSeq(descriptions, start + 1,
           IF start + chunk_size < Len(descriptions)
           THEN start + chunk_size ELSE Len(descriptions))

\* The placement of a sub-batch's results in the order the sub-batches
\* complete: each result goes into the first slot that is still None.
RECURSIVE place_in_completion_order(_, _, _)
place_in_completion_order(res, chunk_start, chunk_res) ==
    IF chunk_res = <<>> \/ \A i \in 1..Len(res) : res[i] # NoneResult THEN res
    ELSE LET free == CHOOSE i \in 1..Len(res) :
                        /\ res[i] = NoneResult
                        /\ \A j \in 1..(i - 1) : res[j] # NoneResult
         IN place_in_completion_order([res EXCEPT ![free] = Head(chunk_res)],
                                      chunk_start, Tail(chunk_res))

\* "Place results back in correct order": results[chunk_start + offset] = res
\* for every offset inside the list (positions counted from 0 in the source).
place_results(res, chunk_start, chunk_res) ==
    [i \in 1..Len(res) |->
        IF i - 1 >= chunk_start /\ i - 1 - chunk_start < Len(chunk_res)
        THEN chunk_res[i - chunk_start] ELSE res[i]]

\* The except branch: the placeholder for len(chunks[0][1]) positions from
\* chunk_start on, as far as the list reaches.
place_fallbacks(res, chunk_start) ==
    LET num_items == Len(ChunkItems(0))
    IN [i \in 1..Len(res) |->
           IF i - 1 >= chunk_start /\ i - 1 - chunk_start < num_items
           THEN ManualFallback("Erro na API") ELSE res[i]]

\* The call up to the submission of the sub-batches; without configuration it
\* returns a placeholder per description at once.
FanSubmit ==
    /\ UNCHANGED <<schedVars, clsVars, valVars, apiVars, mdlVars>>
    /\ fpc = "start"
    /\ IF ~configured
       THEN /\ llm_return' = [i \in 1..Len(descriptions) |-> EmptyResult]
            /\ fpc' = "returned"
            /\ UNCHANGED <<llm_results, future_to_chunk>>
       ELSE /\ llm_results' = [i \in 1..Len(descriptions) |-> NoneResult]
            /\ future_to_chunk' = ChunkStarts(Len(descriptions))
            /\ fpc' = "collect"
            /\ UNCHANGED llm_return
    /\ UNCHANGED <<descriptions, configured, completed>>

\* One iteration of the loop over as_completed: any future not yet collected
\* may be the next one; it holds the list _call_openai_api returned (one result
\* per item of the sub-batch), or the exception it raised.
FanCollect(chunk_start) ==
    /\ UNCHANGED <<schedVars, clsVars, valVars, apiVars, mdlVars>>
    /\ fpc = "collect"
    /\ chunk_start \in future_to_chunk
    /\ future_to_chunk' = future_to_chunk \ {chunk_start}
    /\ LET chunk_items == ChunkItems(chunk_start)
       IN \/ \E chunk_res \in [1..Len(chunk_items) -> UNION {SubBatchResults(chunk_items[k]) :
                                                              k \in 1..Len(chunk_items)}] :
                /\ \A k \in 1..Len(chunk_items) : chunk_res[k] \in SubBatchResults(chunk_items[k])
                /\ llm_results' = place_results(llm_results, chunk_start, chunk_res)
                /\ completed' = Append(completed, [chunk_start |-> chunk_start,
                                                   outcome |-> "returned"])
          \/ /\ llm_results' = place_fallbacks(llm_results, chunk_start)
             /\ completed' = Append(completed, [chunk_start |-> chunk_start,
                                                outcome |-> "raised"])
    /\ UNCHANGED <<descriptions, configured, fpc, llm_return>>

\* The return statement, after the executor has been left.
FanReturn ==
    /\ UNCHANGED <<schedVars, clsVars, valVars, apiVars, mdlVars>>
    /\ fpc = "collect"
    /\ future_to_chunk = {}
    /\ llm_return' = [i \in 1..Len(llm_results) |->
                         IF llm_results[i] # NoneResult THEN llm_results[i]
                         ELSE ManualFallback("Falha Crítica no Processamento")]
    /\ fpc' = "returned"
    /\ UNCHANGED <<descriptions, configured, llm_results, future_to_chunk, completed>>

InitFanOut ==
    /\ InitStore
    /\ cap = 1
    /\ ClsOff
    /\ ValOff
    /\ ApiOff
    /\ MdlOff
    /\ descriptions \in {[i \in 1..n |-> Description(i)] : n \in 0..MaxDescriptions}
    /\ configured \in BOOLEAN
    /\ llm_results = <<>>
    /\ future_to_chunk = {}
    /\ completed = <<>>
    /\ fpc = "start"
    /\ llm_return = <<>>

NextFanOut ==
    \/ FanSubmit
    \/ \E c \in 0..MaxDescriptions : FanCollect(c)
    \/ FanReturn

SpecFanOut == InitFanOut /\ [][NextFanOut]_vars

(***************************************************************************)
(* Properties of Part VI.                                                  *)
(***************************************************************************)
\* The outcome of the sub-batch that held position i (counted from 1).
OutcomeOf(i) ==
    LET start == ((i - 1) \div chunk_size) * chunk_size
        k == CHOOSE k \in 1..Len(completed) : completed[k].chunk_start = start
    IN completed[k].outcome

\* C27: classify_items_with_llm returns exactly len(descriptions) results,
\* none of them None, and result i is the result of description i (its
\* classification or the placeholder; the placeholder when its sub-batch
\* raised), whatever the order in which the sub-batches completed.
C27_OneResultPerDescriptionInOrder ==
    fpc = "returned" =>
        /\ Len(llm_return) = Len(descriptions)
        /\ \A i \in 1..Len(descriptions) :
              /\ llm_return[i] # NoneResult
              /\ llm_return[i].item \in {descriptions[i], ""}
              /\ (configured /\ OutcomeOf(i) = "raised") => llm_return[i].item = ""

\* The sub-batches completed last-first, one of them raised, and every
\* description outside it got its own classification.
C27_Witness ==
    /\ fpc = "returned"
    /\ Len(completed) >= 2
    /\ \A k \in 1..(Len(completed) - 1) :
          completed[k].chunk_start > completed[k + 1].chunk_start
    /\ completed[1].outcome = "returned"
    /\ completed[2].outcome = "raised"
    /\ \A i \in 1..Len(descriptions) :
          OutcomeOf(i) = "returned" => llm_return[i].item = descriptions[i]

====
